---------------------------- MODULE Spec2Model ----------------------------
(***************************************************************************)
(* Odds-similarity prediction engine of the football predictions           *)
(* repository: DailyPredictionsWorkflow (src/src/prediction/               *)
(* daily_predictions_workflow.py) and the match analyzer                   *)
(* (src/analysis/match_analyzer.py).                                       *)
(*                                                                         *)
(* Conventions of the model                                                *)
(*  - a Python str is a sequence of tokens; the separator "_" is a token   *)
(*    of its own, so that concatenation is sequence concatenation;         *)
(*  - a decimal odd is an integer number of hundredths (1.50 is 150); a    *)
(*    mean of odds is an exact fraction [num, den] in lowest terms;        *)
(*  - a raw odd cell is [tag, val]: "num" a number, "numstr" a numeric     *)
(*    string as the API sends it, "text" a non-numeric string, "null" a    *)
(*    missing value;                                                       *)
(*  - a DataFrame of records is [columns, rows], rows a sequence;          *)
(*  - a pivoted matrix is [index, columns, cells], cells a function on the *)
(*    non-null (fixture_id, bet_identifier) pairs;                         *)
(*  - a Python call returns [status, value]; status "ok" is a normal       *)
(*    return, any other status names the exception that propagates;        *)
(*  - a file is [exists, ...]; a directory of files is a function;         *)
(*  - an Elo rating is an integer number of thousandths of a point, an     *)
(*    expected score an integer number of thousandths.                     *)
(***************************************************************************)
EXTENDS Integers, Sequences, FiniteSets, TLC

VARIABLES
    thresholds,                 \* self.SIMILARITY_THRESHOLD, self.MIN_* of the workflow
    historical_odds_data,       \* self.historical_odds_data
    historical_feature_matrix,  \* self.historical_feature_matrix
    last_call,                  \* the most recent call: [op, arg, status, value]
    analyzer_env,               \* what match_analyzer reads: RAPIDAPI_KEY, the odds and match CSVs
    processed_data,             \* the file at config.PROCESSED_DATA_PATH
    predictions,                \* analysis/predictions/prediction_<fixture_id>.json, by fixture_id
    predictions_dir,            \* data/predictions: today's daily CSV and historical_predictions.csv
    calculator,                 \* the EloCalculator: k_factor, initial_elo, league_initial_elos, elo_ratings
    matches_processed,          \* rows of the match files the calculator has been through
    data_files                  \* the CSV files under data/ that the updaters and the Elo predictions keep

workflow_vars == <<thresholds, historical_odds_data, historical_feature_matrix>>
analyzer_vars == <<analyzer_env, processed_data, predictions>>

elo_vars == <<calculator, matches_processed>>

vars == <<workflow_vars, last_call, analyzer_vars, predictions_dir, elo_vars, data_files>>

---------------------------------------------------------------------------
(* Configuration values                                                    *)

\* src/src/config.py: SIMILARITY_THRESHOLD = 0.10, in hundredths of an odd
SIMILARITY_THRESHOLD == 10
MIN_BOOKMAKERS_THRESHOLD == 3
MIN_SIMILAR_MATCHES_THRESHOLD == 10
MIN_SIMILARITY_PCT_THRESHOLD == 70

\* src/analysis/config.py, the module match_analyzer imports as config:
\* the attributes it defines, by name
analysis_config ==
    [ODDS_DATA_DIR |-> <<"data/odds/raw_data">>,
     MATCH_DATA_DIR |-> <<"data/matches">>,
     PROCESSED_DATA_PATH |-> <<"data/analysis_data.parquet">>,
     RAPIDAPI_KEY |-> <<>>,
     SIMILARITY_THRESHOLD |-> 10,
     MIN_BOOKMAKERS_THRESHOLD |-> 5]

---------------------------------------------------------------------------
(* Bounds of the explored inputs                                           *)

BulkSize == 12      \* fixtures of the first block of a historical corpus
TailSmall == 3      \* fixtures of a short second block
TailLarge == 8      \* fixtures of a long second block
MaxQuoting == 3     \* bookmakers quoting the main market in an API payload
MaxSideQuoting == 2 \* bookmakers quoting the second market in an API payload
HistoryNear == 4    \* fixtures of the analyzer's history quoted around 1.50
MaxFixtures == 2    \* fixtures handed to one daily run
MaxStored == 3      \* rows of historical_predictions.csv beyond which no run is started
MaxMatches == 4     \* rows of the match files the Elo calculator goes through
MaxBets == 2        \* rows of the predictions handed to compute_bet_success_rates
MaxFetched == 2     \* fixtures in the API's answer to one league update
MaxQuotes == 2      \* odds records in the API's answer for one fixture

---------------------------------------------------------------------------
(* Strings, odds, fractions                                                *)

MatchWinner == <<"Match Winner">>
OverUnder == <<"Over/Under">>
PlayerBet == <<"Anytime Goal Scorer">>
Home == <<"Home">>
Over25 == <<"Over 2.5">>

Num(v) == [tag |-> "num", val |-> v]
NumStr(v) == [tag |-> "numstr", val |-> v]
Text == [tag |-> "text", val |-> 0]
Null == [tag |-> "null", val |-> 0]

NaN == [nan |-> TRUE, val |-> 0]

\* pd.to_numeric(x, errors='coerce') on one cell
to_numeric(o) ==
    IF o.tag \in {"num", "numstr"} THEN [nan |-> FALSE, val |-> o.val] ELSE NaN

Abs(x) == IF x < 0 THEN -x ELSE x

RECURSIVE GCD(_, _)
GCD(a, b) == IF b = 0 THEN a ELSE GCD(b, a % b)

\* the fraction n/d (d > 0) in lowest terms
Frac(n, d) ==
    LET g == GCD(Abs(n), d)
    IN  [num |-> n \div g, den |-> d \div g]

\* mutation of WithinDistance: < for <=
WithinDistance_strict(a, b, thr) ==
    Abs(a.num * b.den - b.num * a.den) < thr * a.den * b.den

\* |a - b| <= thr for fractions a, b and an integer thr
WithinDistance(a, b, thr) ==
    Abs(a.num * b.den - b.num * a.den) <= thr * a.den * b.den

\* mutation of Round2Pct: round(x) for round(x, 2), a whole percentage
Round2Pct_whole(s, t) ==
    LET q == (100 * s) \div t
        r == (100 * s) % t
    IN  100 * (IF 2 * r < t THEN q
               ELSE IF 2 * r > t THEN q + 1
               ELSE IF q % 2 = 0 THEN q ELSE q + 1)

\* Python round(100 * s / t, 2) in hundredths: nearest, ties to even
Round2Pct(s, t) ==
    LET q == (10000 * s) \div t
        r == (10000 * s) % t
    IN  IF 2 * r < t THEN q
        ELSE IF 2 * r > t THEN q + 1
        ELSE IF q % 2 = 0 THEN q ELSE q + 1

---------------------------------------------------------------------------
(* DataFrames of odds records                                              *)

OddsColumns == {"fixture_id", "bookmaker_id", "bet_type_name", "bet_value", "odd"}

\* pd.DataFrame()
EmptyDataFrame == [columns |-> {}, rows |-> <<>>]

\* DataFrame.empty
IsEmpty(df) == df.columns = {} \/ df.rows = <<>>

Record(f, b, name, value, o) ==
    [fixture_id |-> f, bookmaker_id |-> b, bet_type_name |-> name,
     bet_value |-> value, odd |-> o]

\* bet_type_name + '_' + bet_value
bet_identifier(r) == r.bet_type_name \o <<"_">> \o r.bet_value

\* df['odd'] = pd.to_numeric(df['odd'], errors='coerce'); df.dropna(subset=['odd'])
dropna_odd(rows) == SelectSeq(rows, LAMBDA r : ~to_numeric(r.odd).nan)

GroupRows(rows, key) ==
    {i \in 1..Len(rows) : <<rows[i].fixture_id, bet_identifier(rows[i])>> = key}

GroupKeys(rows) ==
    {<<rows[i].fixture_id, bet_identifier(rows[i])>> : i \in 1..Len(rows)}

\* mutation of nunique_bookmakers: the rows of the group are counted
\* (count() for nunique()), so a bookmaker quoting twice counts twice
nunique_bookmakers_count_rows(rows, key) ==
    Cardinality(GroupRows(rows, key))

\* groupby([...])['bookmaker_id'].nunique() of one group
nunique_bookmakers(rows, key) ==
    Cardinality({rows[i].bookmaker_id : i \in GroupRows(rows, key)})

RECURSIVE SumOdds(_, _)
SumOdds(rows, S) ==
    IF S = {} THEN 0
    ELSE LET i == CHOOSE j \in S : TRUE
         IN  to_numeric(rows[i].odd).val + SumOdds(rows, S \ {i})

\* mutation of mean_odd: the first record of the group stands for the group
\* (first() for mean())
mean_odd_first(rows, S) ==
    LET valid == {i \in S : ~to_numeric(rows[i].odd).nan}
        first == CHOOSE i \in valid : \A j \in valid : i <= j
    IN  IF valid = {} THEN Frac(0, 0) ELSE Frac(to_numeric(rows[first].odd).val, 1)

\* groupby([...])['odd'].mean() of one group: NaN cells are skipped
mean_odd(rows, S) ==
    LET valid == {i \in S : ~to_numeric(rows[i].odd).nan}
    IN  Frac(SumOdds(rows, valid), Cardinality(valid))

EmptyMatrix == [index |-> {}, columns |-> {}, cells |-> <<>>]

\* DataFrame.empty of a matrix
IsEmptyMatrix(m) == m.index = {} \/ m.columns = {}

\* mean_odds.pivot(index='fixture_id', columns='bet_identifier', values='odd')
\* over the groups `keys`; a group whose mean is NaN leaves a null cell
pivot_mean(rows, keys) ==
    LET filled == {k \in keys :
                      \E i \in GroupRows(rows, k) : ~to_numeric(rows[i].odd).nan}
    IN  [index |-> {k[1] : k \in keys},
         columns |-> {k[2] : k \in keys},
         cells |-> [k \in filled |-> mean_odd(rows, GroupRows(rows, k))]]

\* mutation of create_comprehensive_feature_matrix: the reliability filter
\* compares with > for >=
create_comprehensive_feature_matrix_strict(data, th) ==
    IF IsEmpty(data) THEN [status |-> "ok", value |-> EmptyMatrix]
    ELSE IF "odd" \notin data.columns THEN [status |-> "KeyError", value |-> EmptyMatrix]
    ELSE LET df == dropna_odd(data.rows)
             reliable_bets ==
                 {k \in GroupKeys(df) : nunique_bookmakers(df, k) > th.MIN_BOOKMAKERS_THRESHOLD}
         IN  IF reliable_bets = {} THEN [status |-> "ok", value |-> EmptyMatrix]
             ELSE [status |-> "ok", value |-> pivot_mean(df, reliable_bets)]

\* mutation of create_comprehensive_feature_matrix: the guard on an empty
\* corpus is missing
create_comprehensive_feature_matrix_unguarded(data, th) ==
    IF "odd" \notin data.columns THEN [status |-> "KeyError", value |-> EmptyMatrix]
    ELSE LET df == dropna_odd(data.rows)
             reliable_bets ==
                 {k \in GroupKeys(df) : nunique_bookmakers(df, k) >= th.MIN_BOOKMAKERS_THRESHOLD}
         IN  IF reliable_bets = {} THEN [status |-> "ok", value |-> EmptyMatrix]
             ELSE [status |-> "ok", value |-> pivot_mean(df, reliable_bets)]

\* DailyPredictionsWorkflow.create_comprehensive_feature_matrix
create_comprehensive_feature_matrix(data, th) ==
    IF IsEmpty(data) THEN [status |-> "ok", value |-> EmptyMatrix]
    ELSE IF "odd" \notin data.columns THEN [status |-> "KeyError", value |-> EmptyMatrix]
    ELSE LET df == dropna_odd(data.rows)
             reliable_bets ==
                 {k \in GroupKeys(df) : nunique_bookmakers(df, k) >= th.MIN_BOOKMAKERS_THRESHOLD}
         IN  IF reliable_bets = {} THEN [status |-> "ok", value |-> EmptyMatrix]
             ELSE [status |-> "ok", value |-> pivot_mean(df, reliable_bets)]


\* match_analyzer.create_feature_matrix; config is the module it imports
create_feature_matrix(df, config) ==
    IF IsEmpty(df) THEN [status |-> "ok", value |-> EmptyMatrix]
    ELSE IF "KEY_BET_TYPES" \notin DOMAIN config
    THEN [status |-> "AttributeError", value |-> EmptyMatrix]
    ELSE LET kept == SelectSeq(df.rows,
                         LAMBDA r : r.bet_type_name \in config.KEY_BET_TYPES)
             reliable_bets ==
                 {k \in GroupKeys(kept) :
                     nunique_bookmakers(kept, k) >= config.MIN_BOOKMAKERS_THRESHOLD}
         IN  IF kept = <<>> \/ reliable_bets = {}
             THEN [status |-> "ok", value |-> EmptyMatrix]
             ELSE IF \E i \in 1..Len(df.rows) : df.rows[i].odd.tag \in {"numstr", "text"}
             THEN [status |-> "TypeError", value |-> EmptyMatrix]
             ELSE [status |-> "ok", value |-> pivot_mean(kept, reliable_bets)]

---------------------------------------------------------------------------
(* Target odds of one fixture                                              *)

RECURSIVE Concat(_)
Concat(ss) == IF ss = <<>> THEN <<>> ELSE Head(ss) \o Concat(Tail(ss))

\* the four nested loops of process_fixture_odds, in order
FlattenBet(fixture_id, bookmaker, bet) ==
    [i \in 1..Len(bet.values) |->
        Record(fixture_id, bookmaker.id, bet.name, bet.values[i].value, bet.values[i].odd)]

FlattenBookmaker(fixture_id, bookmaker) ==
    Concat([j \in 1..Len(bookmaker.bets) |->
               FlattenBet(fixture_id, bookmaker, bookmaker.bets[j])])

FlattenEntry(fixture_id, odds_entry) ==
    Concat([j \in 1..Len(odds_entry.bookmakers) |->
               FlattenBookmaker(fixture_id, odds_entry.bookmakers[j])])

processed_odds(fixture_id, odds_data) ==
    Concat([j \in 1..Len(odds_data) |-> FlattenEntry(fixture_id, odds_data[j])])

\* DailyPredictionsWorkflow.process_fixture_odds
process_fixture_odds(fixture_id, odds_data) ==
    IF odds_data = <<>> \/ processed_odds(fixture_id, odds_data) = <<>>
    THEN [status |-> "ok", value |-> <<>>]
    ELSE LET df == dropna_odd(processed_odds(fixture_id, odds_data))
             ids == {bet_identifier(df[i]) : i \in 1..Len(df)}
         IN  [status |-> "ok",
              value |-> [b \in ids |->
                            mean_odd(df, GroupRows(df, <<fixture_id, b>>))]]

---------------------------------------------------------------------------
(* Similarity search                                                       *)

\* self.historical_feature_matrix[bet_identifier].dropna(): the fixtures of the column
historical_odds(matrix, b) ==
    {f \in matrix.index : <<f, b>> \in DOMAIN matrix.cells}

\* distances[distances <= self.SIMILARITY_THRESHOLD]
similar_matches(matrix, b, target_odd, th) ==
    {f \in historical_odds(matrix, b) :
        WithinDistance(matrix.cells[<<f, b>>], target_odd, th.SIMILARITY_THRESHOLD)}

\* mutation of PassingBets: the gate on the number of similar matches is
\* missing, only the gate on the size of the column is left
PassingBets_no_count_gate(target_odds, matrix, th) ==
    {b \in DOMAIN target_odds :
        /\ b \in matrix.columns
        /\ Cardinality(historical_odds(matrix, b)) >= th.MIN_SIMILAR_MATCHES_THRESHOLD}

\* the bet identifiers for which the loop body reaches the result assignment
PassingBets(target_odds, matrix, th) ==
    {b \in DOMAIN target_odds :
        /\ b \in matrix.columns
        /\ Cardinality(historical_odds(matrix, b)) >= th.MIN_SIMILAR_MATCHES_THRESHOLD
        /\ Cardinality(similar_matches(matrix, b, target_odds[b], th))
               >= th.MIN_SIMILAR_MATCHES_THRESHOLD}

SimilarityResult(matrix, b, target_odd, th) ==
    LET n_similar == Cardinality(similar_matches(matrix, b, target_odd, th))
        n_total == Cardinality(historical_odds(matrix, b))
    IN  [similarity_percentage |-> Round2Pct(n_similar, n_total),
         similar_matches_count |-> n_similar,
         total_historical_matches |-> n_total,
         target_odd |-> target_odd,
         similarity_reference_count |-> n_similar]

\* DailyPredictionsWorkflow.calculate_similarity_for_all_bets
\* (avg_distance, which no caller reads, is left out of the result record)
calculate_similarity_for_all_bets(target_odds, matrix, th) ==
    IF DOMAIN target_odds = {} \/ IsEmptyMatrix(matrix)
    THEN [status |-> "ok", value |-> <<>>]
    ELSE IF \E b \in PassingBets(target_odds, matrix, th) : historical_odds(matrix, b) = {}
    THEN [status |-> "ZeroDivisionError", value |-> <<>>]
    ELSE [status |-> "ok",
          value |-> [b \in PassingBets(target_odds, matrix, th) |->
                        SimilarityResult(matrix, b, target_odds[b], th)]]

---------------------------------------------------------------------------
(* Inputs: historical corpora, API payloads, target vectors                *)

\* records of one (fixture, bet) group: bookmaker bks[i] quotes odds[i]
Quotes(f, name, value, bks, odds) ==
    [i \in 1..Len(odds) |-> Record(f, bks[i], name, value, odds[i])]

MainQuotes(f, bks, odds) == Quotes(f, MatchWinner, Home, bks, odds)

\* a fixture whose main market is reliably quoted around 1.50
BlockA(f) == MainQuotes(f, <<1, 2, 3>>, <<Num(148), Num(150), Num(152)>>)

\* a fixture quoted at 3.00, with a reliable second market
BlockB(f) ==
    MainQuotes(f, <<1, 2, 3>>, <<Num(300), Num(300), Num(300)>>)
        \o Quotes(f, OverUnder, Over25, <<1, 2, 3>>, <<Num(190), Num(190), Num(191)>>)

SpecialKinds ==
    {"none", "two", "null3", "text4", "dup", "dup2", "zero", "neg", "edge", "near",
     "side2", "player", "underscore"}

\* one further fixture, of a kind that exercises one case of the builder
Special(f, kind) ==
    CASE kind = "none"  -> <<>>
      [] kind = "two"   -> MainQuotes(f, <<1, 2>>, <<Num(150), Num(152)>>)
      [] kind = "null3" -> MainQuotes(f, <<1, 2, 3>>, <<Num(150), Null, Num(152)>>)
      [] kind = "text4" -> MainQuotes(f, <<1, 2, 3, 4>>, <<Num(150), Text, Num(152), Num(154)>>)
      [] kind = "dup"   -> MainQuotes(f, <<1, 1, 2, 3>>, <<Num(150), Num(156), Num(150), Num(150)>>)
      [] kind = "dup2"  -> MainQuotes(f, <<1, 1, 2>>, <<Num(150), Num(152), Num(154)>>)
      [] kind = "zero"  -> MainQuotes(f, <<1, 2, 3>>, <<Num(0), Num(150), Num(156)>>)
      [] kind = "neg"   -> MainQuotes(f, <<1, 2, 3>>, <<Num(-150), Num(150), Num(156)>>)
      [] kind = "edge"  -> MainQuotes(f, <<1, 2, 3>>, <<Num(162), Num(162), Num(162)>>)
      [] kind = "near"  -> MainQuotes(f, <<1, 2, 3>>, <<Num(162), Num(163), Num(163)>>)
      [] kind = "side2" -> MainQuotes(f, <<1, 2, 3>>, <<Num(150), Num(150), Num(151)>>)
                               \o Quotes(f, OverUnder, Over25, <<1, 2>>, <<Num(200), Num(210)>>)
      [] kind = "player" -> Quotes(f, PlayerBet, Home, <<1, 2, 3, 4, 5>>,
                                   <<Num(250), Num(250), Num(250), Num(250), Num(250)>>)
      [] kind = "underscore" ->
             Quotes(f, <<"Total", "_", "Home">>, <<"Over 1.5">>, <<1, 2>>,
                    <<Num(170), Num(172)>>)
                 \o Quotes(f, <<"Total">>, <<"Home", "_", "Over 1.5">>, <<3>>, <<Num(250)>>)

\* n1 fixtures of BlockA, then n2 of BlockB, then one special fixture
CorpusRows(n1, n2, kind) ==
    Concat([f \in 1..n1 |-> BlockA(f)])
        \o Concat([j \in 1..n2 |-> BlockB(n1 + j)])
        \o Special(n1 + n2 + 1, kind)

Corpus(n1, n2, kind) == [columns |-> OddsColumns, rows |-> CorpusRows(n1, n2, kind)]

\* block sizes <<n1, n2>> of the explored corpora
CorpusShapes ==
    {<<0, 0>>, <<BulkSize - 3, TailSmall>>, <<BulkSize, TailSmall>>, <<BulkSize, TailLarge>>}

\* what load_all_historical_odds can return: pd.DataFrame() when no file is
\* read, otherwise the concatenation of the league files
Corpora ==
    {EmptyDataFrame}
        \cup {Corpus(shape[1], shape[2], kind) : shape \in CorpusShapes,
                                                 kind \in SpecialKinds}

\* the API answer for one fixture: nMain bookmakers quote the main market,
\* nSide others the second market, and one more gives a malformed main odd
BookmakerEntry(id, name, value, o) ==
    [id |-> id,
     bets |-> <<[name |-> name, values |-> <<[value |-> value, odd |-> o]>>]>>]

BadOdd(extra) ==
    CASE extra = "null" -> Null
      [] extra = "text" -> Text
      [] extra = "zero" -> NumStr(0)
      [] extra = "neg"  -> NumStr(-150)

Payload(nMain, nSide, extra) ==
    <<[bookmakers |->
          [i \in 1..nMain |-> BookmakerEntry(i, MatchWinner, Home, NumStr(148 + 2 * i))]
              \o [i \in 1..nSide |->
                     BookmakerEntry(nMain + i, OverUnder, Over25, NumStr(190 + 10 * i))]
              \o (IF extra = "none" THEN <<>>
                  ELSE <<BookmakerEntry(nMain + nSide + 1, MatchWinner, Home, BadOdd(extra))>>)]>>

Payloads ==
    {<<>>}
        \cup {Payload(nMain, nSide, extra) : nMain \in 0..MaxQuoting,
                                            nSide \in {0, MaxSideQuoting},
                                            extra \in {"none", "null", "text", "zero", "neg"}}

\* target vectors handed directly to calculate_similarity_for_all_bets
DirectTargets ==
    {<<>>}
        \cup {(MatchWinner \o <<"_">> \o Home) :> Frac(t, 1) : t \in {140, 152, 290}}
        \cup {(OverUnder \o <<"_">> \o Over25) :> Frac(190, 1)}
        \cup {(PlayerBet \o <<"_">> \o Home) :> Frac(250, 1)}

\* the attribute values a workflow can hold: the three thresholds copied from
\* src/src/config.py by __init__, and MIN_SIMILARITY_PCT_THRESHOLD when it
\* has been set on the instance
Configurations ==
    {[SIMILARITY_THRESHOLD |-> SIMILARITY_THRESHOLD,
      MIN_BOOKMAKERS_THRESHOLD |-> MIN_BOOKMAKERS_THRESHOLD,
      MIN_SIMILAR_MATCHES_THRESHOLD |-> MIN_SIMILAR_MATCHES_THRESHOLD,
      has_MIN_SIMILARITY_PCT_THRESHOLD |-> has,
      MIN_SIMILARITY_PCT_THRESHOLD |-> MIN_SIMILARITY_PCT_THRESHOLD] : has \in BOOLEAN}

\* inputs of match_analyzer.create_feature_matrix
AnalyzerInputs ==
    {EmptyDataFrame, [columns |-> OddsColumns, rows |-> <<>>]}
        \cup {Corpus(0, 0, kind) : kind \in SpecialKinds}

---------------------------------------------------------------------------
(* The workflow as a state machine                                         *)

\* match_analyzer is not run: nothing to read, no processed file, no report
AnalyzerUnused ==
    /\ analyzer_env = [RAPIDAPI_KEY |-> FALSE, odds |-> EmptyDataFrame, matches |-> EmptyDataFrame]
    /\ processed_data = [exists |-> FALSE]
    /\ predictions = <<>>

\* no EloCalculator has been created
EloUnused ==
    /\ calculator = <<>>
    /\ matches_processed = 0

\* a CSV file that does not exist
NoFile == [exists |-> FALSE, rows |-> <<>>]

\* os.makedirs(self.predictions_dir): no CSV has been written yet
NothingWritten ==
    /\ predictions_dir = [daily |-> [exists |-> FALSE], historical |-> [exists |-> FALSE]]
    /\ data_files = [matches |-> NoFile, odds |-> NoFile, elo_history |-> NoFile]

TargetFixture == 1000
Rotation == 5

\* DailyPredictionsWorkflow.__init__: load the corpus, build the matrix once
Init ==
    /\ thresholds \in Configurations
    /\ historical_odds_data \in Corpora
    /\ LET built == create_comprehensive_feature_matrix(historical_odds_data, thresholds)
       IN  /\ historical_feature_matrix = built.value
           /\ last_call = [op |-> "__init__", arg |-> <<>>,
                           status |-> built.status, value |-> <<>>]
    /\ AnalyzerUnused
    /\ NothingWritten
    /\ EloUnused

Constructed == last_call.op = "__init__" => last_call.status = "ok"

Call(op, arg, ret) ==
    /\ last_call' = [op |-> op, arg |-> arg, status |-> ret.status, value |-> ret.value]
    /\ UNCHANGED <<workflow_vars, analyzer_vars, predictions_dir, elo_vars, data_files>>

ProcessFixtureOdds ==
    /\ Constructed
    /\ \E odds_data \in Payloads :
          Call("process_fixture_odds", odds_data,
               process_fixture_odds(TargetFixture, odds_data))

\* called with the vector process_fixture_odds just returned, as
\* create_daily_predictions_csv does, or directly with a vector
CalculateSimilarityForAllBets ==
    /\ Constructed
    /\ \E target_odds \in DirectTargets
            \cup (IF last_call.op = "process_fixture_odds" THEN {last_call.value} ELSE {}) :
          Call("calculate_similarity_for_all_bets", target_odds,
               calculate_similarity_for_all_bets(target_odds, historical_feature_matrix,
                                                 thresholds))

CreateFeatureMatrix ==
    /\ Constructed
    /\ \E df \in AnalyzerInputs :
          Call("create_feature_matrix", df, create_feature_matrix(df, analysis_config))

\* the orders in which the same records can have been loaded
Reorderings == {"same", "reversed", "rotated", "interleaved"}

Reorder(rows, order) ==
    LET n == Len(rows)
    IN  CASE order = "same" -> rows
          [] order = "reversed" -> [i \in 1..n |-> rows[n + 1 - i]]
          [] order = "rotated" -> [i \in 1..n |-> rows[((i - 1 + Rotation) % n) + 1]]
          [] order = "interleaved" ->
                 [i \in 1..n |-> IF i <= (n + 1) \div 2 THEN rows[2 * i - 1]
                                  ELSE rows[2 * (i - (n + 1) \div 2)]]

\* create_comprehensive_feature_matrix called again, on the records of the
\* corpus as loaded or in another order; the result is returned, not assigned
CreateComprehensiveFeatureMatrix ==
    /\ Constructed
    /\ \E order \in Reorderings :
           Call("create_comprehensive_feature_matrix", order,
                create_comprehensive_feature_matrix(
                    [columns |-> historical_odds_data.columns,
                     rows |-> Reorder(historical_odds_data.rows, order)],
                    thresholds))

Next ==
    \/ ProcessFixtureOdds
    \/ CalculateSimilarityForAllBets
    \/ CreateFeatureMatrix

Spec == Init /\ [][Next]_vars

\* the workflow constructed, then the matrix built again
SpecRebuild == Init /\ [][CreateComprehensiveFeatureMatrix]_vars

---------------------------------------------------------------------------
(* Properties.  Each is stated on the inputs and outputs held by the state, *)
(* with counts and means recomputed here from the raw records.              *)

\* the records of `rows` that belong to the pair <<fixture_id, bet_identifier>>
RecordsOf(rows, pair) ==
    {i \in 1..Len(rows) :
        /\ rows[i].fixture_id = pair[1]
        /\ rows[i].bet_type_name \o <<"_">> \o rows[i].bet_value = pair[2]}

PairsOf(rows) ==
    {<<rows[i].fixture_id, rows[i].bet_type_name \o <<"_">> \o rows[i].bet_value>> :
        i \in 1..Len(rows)}

Bookmakers(rows, S) == {rows[i].bookmaker_id : i \in S}

HasNumericOdd(r) == r.odd.tag \in {"num", "numstr"}

HasPositiveOdd(r) == HasNumericOdd(r) /\ r.odd.val > 0

\* every non-null cell of `matrix` has at least `min` distinct bookmakers
\* among the records of its pair in `rows`
CellsBacked(matrix, rows, min) ==
    \A pair \in DOMAIN matrix.cells :
        Cardinality(Bookmakers(rows, RecordsOf(rows, pair))) >= min

AnalyzerReturned ==
    last_call.op = "create_feature_matrix" /\ last_call.status = "ok"

\* C1: every non-null cell (fixture_id, bet_identifier) of the matrix built
\* by create_comprehensive_feature_matrix, and of a matrix returned by
\* create_feature_matrix, is backed by at least MIN_BOOKMAKERS_THRESHOLD
\* distinct bookmaker_id values among the input records of that pair.
C1_CellsBackedByEnoughBookmakers ==
    /\ CellsBacked(historical_feature_matrix, historical_odds_data.rows,
                   thresholds.MIN_BOOKMAKERS_THRESHOLD)
    /\ AnalyzerReturned =>
           CellsBacked(last_call.value, last_call.arg.rows,
                       analysis_config.MIN_BOOKMAKERS_THRESHOLD)

\* C1 witness: a matrix with a non-null cell, built from a corpus that also
\* holds a pair quoted by too few distinct bookmakers, which has no cell.
C1_Witness ==
    /\ DOMAIN historical_feature_matrix.cells # {}
    /\ \E pair \in PairsOf(historical_odds_data.rows) :
          /\ pair \notin DOMAIN historical_feature_matrix.cells
          /\ Cardinality(RecordsOf(historical_odds_data.rows, pair))
                 >= thresholds.MIN_BOOKMAKERS_THRESHOLD
          /\ Cardinality(Bookmakers(historical_odds_data.rows,
                                    RecordsOf(historical_odds_data.rows, pair)))
                 < thresholds.MIN_BOOKMAKERS_THRESHOLD

\* no pair that `accept` records back with `min` distinct bookmakers is left
\* without a cell
NoGroupOmitted(matrix, rows, min, accept(_)) ==
    \A pair \in PairsOf(rows) :
        pair \notin DOMAIN matrix.cells =>
            Cardinality(Bookmakers(rows, {i \in RecordsOf(rows, pair) : accept(rows[i])}))
                < min

AnyRecord(r) == TRUE

\* C8 as claimed: a pair without a cell has no group of input records with at
\* least MIN_BOOKMAKERS_THRESHOLD distinct bookmakers.
C8_Original_NoReliableGroupOmitted ==
    /\ NoGroupOmitted(historical_feature_matrix, historical_odds_data.rows,
                      thresholds.MIN_BOOKMAKERS_THRESHOLD, AnyRecord)
    /\ AnalyzerReturned =>
           NoGroupOmitted(last_call.value, last_call.arg.rows,
                          analysis_config.MIN_BOOKMAKERS_THRESHOLD, AnyRecord)

\* C8 amended: a pair without a cell has no group of input records with a
\* numeric odd that counts at least MIN_BOOKMAKERS_THRESHOLD distinct
\* bookmakers.
C8_NoNumericGroupOmitted ==
    /\ NoGroupOmitted(historical_feature_matrix, historical_odds_data.rows,
                      thresholds.MIN_BOOKMAKERS_THRESHOLD, HasNumericOdd)
    /\ AnalyzerReturned =>
           NoGroupOmitted(last_call.value, last_call.arg.rows,
                          analysis_config.MIN_BOOKMAKERS_THRESHOLD, HasNumericOdd)

\* C8 witness: a corpus with a pair that has no cell although enough
\* bookmakers quote it, too few of them with a numeric odd, next to a pair
\* quoted by exactly MIN_BOOKMAKERS_THRESHOLD bookmakers that has a cell.
C8_Witness ==
    /\ \E pair \in PairsOf(historical_odds_data.rows) :
          /\ pair \notin DOMAIN historical_feature_matrix.cells
          /\ Cardinality(Bookmakers(historical_odds_data.rows,
                                    RecordsOf(historical_odds_data.rows, pair)))
                 >= thresholds.MIN_BOOKMAKERS_THRESHOLD
    /\ \E pair \in DOMAIN historical_feature_matrix.cells :
          Cardinality(Bookmakers(historical_odds_data.rows,
                                 RecordsOf(historical_odds_data.rows, pair)))
              = thresholds.MIN_BOOKMAKERS_THRESHOLD

SimilarityReturned ==
    last_call.op = "calculate_similarity_for_all_bets" /\ last_call.status = "ok"

\* the fixtures with a non-null value in column b
ColumnFixtures(matrix, b) ==
    {pair[1] : pair \in {p \in DOMAIN matrix.cells : p[2] = b}}

\* |h - t| compared with thr, cross-multiplied: -1, 0 or 1
CompareDistance(h, t, thr) ==
    LET lhs == IF h.num * t.den >= t.num * h.den
               THEN h.num * t.den - t.num * h.den
               ELSE t.num * h.den - h.num * t.den
        rhs == thr * h.den * t.den
    IN  IF lhs < rhs THEN -1 ELSE IF lhs = rhs THEN 0 ELSE 1

\* the fixtures of column b within the tolerance of the target odd t, bound included
SimilarFixtures(matrix, b, t, thr) ==
    {f \in ColumnFixtures(matrix, b) : CompareDistance(matrix.cells[<<f, b>>], t, thr) <= 0}

\* C2: no bet_identifier is in the result of calculate_similarity_for_all_bets
\* with fewer than MIN_SIMILAR_MATCHES_THRESHOLD similar matches, and none
\* whose column holds fewer non-null values than the threshold.
C2_CountGate ==
    SimilarityReturned =>
        \A b \in DOMAIN last_call.value :
            /\ last_call.value[b].similar_matches_count
                   >= thresholds.MIN_SIMILAR_MATCHES_THRESHOLD
            /\ Cardinality(SimilarFixtures(historical_feature_matrix, b, last_call.arg[b],
                                           thresholds.SIMILARITY_THRESHOLD))
                   >= thresholds.MIN_SIMILAR_MATCHES_THRESHOLD
            /\ Cardinality(ColumnFixtures(historical_feature_matrix, b))
                   >= thresholds.MIN_SIMILAR_MATCHES_THRESHOLD

\* C2 witness: a call that returns a result for one bet and none for a bet of
\* the target whose column is large enough but holds too few similar values,
\* or for a bet whose column is too small.
C2_Witness ==
    /\ SimilarityReturned
    /\ \E b \in DOMAIN last_call.arg :
          /\ b \in historical_feature_matrix.columns
          /\ b \notin DOMAIN last_call.value
          /\ \/ /\ Cardinality(ColumnFixtures(historical_feature_matrix, b))
                       >= thresholds.MIN_SIMILAR_MATCHES_THRESHOLD
                /\ SimilarFixtures(historical_feature_matrix, b, last_call.arg[b],
                                   thresholds.SIMILARITY_THRESHOLD) # {}
             \/ /\ DOMAIN last_call.value # {}
                /\ Cardinality(ColumnFixtures(historical_feature_matrix, b))
                       < thresholds.MIN_SIMILAR_MATCHES_THRESHOLD

\* C3 as claimed: when MIN_SIMILARITY_PCT_THRESHOLD is set on the workflow,
\* no result has a similarity_percentage below it.
C3_PercentageGate ==
    (SimilarityReturned /\ thresholds.has_MIN_SIMILARITY_PCT_THRESHOLD) =>
        \A b \in DOMAIN last_call.value :
            last_call.value[b].similarity_percentage
                >= 100 * thresholds.MIN_SIMILARITY_PCT_THRESHOLD

C6_PercentageIsRoundedRatio ==
    SimilarityReturned =>
        \A b \in DOMAIN last_call.value :
            LET r == last_call.value[b]
                err == r.similarity_percentage * r.total_historical_matches
                           - 10000 * r.similar_matches_count
            IN  /\ r.total_historical_matches > 0
                /\ r.similar_matches_count <= r.total_historical_matches
                /\ r.similarity_percentage >= 0
                /\ r.similarity_percentage <= 10000
                /\ 2 * err <= r.total_historical_matches
                /\ -2 * err <= r.total_historical_matches

\* C6 witness: a result whose ratio is no whole number of hundredths, so that
\* the percentage is a rounded value.
C6_Witness ==
    /\ SimilarityReturned
    /\ \E b \in DOMAIN last_call.value :
          (10000 * last_call.value[b].similar_matches_count)
              % last_call.value[b].total_historical_matches # 0

\* C7 as claimed: similarity_reference_count is the size of the reference
\* population, the number of fixtures with a non-null value in the column.
C7_ReferenceCountIsPopulation ==
    SimilarityReturned =>
        \A b \in DOMAIN last_call.value :
            last_call.value[b].similarity_reference_count =
                Cardinality(ColumnFixtures(historical_feature_matrix, b))

\* C9: an empty corpus gives an empty matrix without an error, and
\* calculate_similarity_for_all_bets returns an empty mapping without raising
\* when the target is empty, the matrix is empty or they share no bet.
C9_AbsenceIsEmptyResult ==
    /\ IsEmpty(historical_odds_data) =>
           /\ last_call.op = "__init__" => last_call.status = "ok"
           /\ historical_feature_matrix = EmptyMatrix
    /\ (/\ last_call.op = "calculate_similarity_for_all_bets"
        /\ \/ DOMAIN last_call.arg = {}
           \/ DOMAIN historical_feature_matrix.cells = {}
           \/ DOMAIN last_call.arg \cap historical_feature_matrix.columns = {})
           => (last_call.status = "ok" /\ last_call.value = <<>>)

\* C9 witness: a call with a non-empty target on a non-empty matrix that
\* shares no bet_identifier with it.
C9_Witness ==
    /\ last_call.op = "calculate_similarity_for_all_bets"
    /\ DOMAIN last_call.arg # {}
    /\ DOMAIN historical_feature_matrix.cells # {}
    /\ DOMAIN last_call.arg \cap historical_feature_matrix.columns = {}
    /\ last_call.value = <<>>

\* C9 witness of the empty corpus: a workflow constructed from pd.DataFrame()
\* and asked for similarities.
C9_WitnessEmptyCorpus ==
    /\ historical_odds_data = EmptyDataFrame
    /\ last_call.op = "calculate_similarity_for_all_bets"
    /\ DOMAIN last_call.arg # {}

TargetReturned ==
    last_call.op = "process_fixture_odds" /\ last_call.status = "ok"

\* the flat quotes of the payload of the last process_fixture_odds call
TargetQuotes == processed_odds(TargetFixture, last_call.arg)

\* v is the mean of the odds of the records S of rows
IsMeanOf(v, rows, S) ==
    S # {} /\ v.num * Cardinality(S) = v.den * SumOdds(rows, S)

\* C4 as claimed: a bet quoted by fewer than MIN_BOOKMAKERS_THRESHOLD distinct
\* bookmakers is absent from the target vector; a bet that is present maps to
\* the mean of its quoted odds.
C4_TargetBuiltLikeMatrixRow ==
    TargetReturned =>
        \A b \in DOMAIN last_call.value :
            LET S == {i \in RecordsOf(TargetQuotes, <<TargetFixture, b>>) :
                         HasNumericOdd(TargetQuotes[i])}
            IN  /\ Cardinality(Bookmakers(TargetQuotes, S))
                       >= thresholds.MIN_BOOKMAKERS_THRESHOLD
                /\ IsMeanOf(last_call.value[b], TargetQuotes, S)

PositiveRecords(rows, pair) ==
    {i \in RecordsOf(rows, pair) : HasPositiveOdd(rows[i])}

\* C10 as claimed: a record whose odd is missing, non-numeric, zero or negative
\* contributes to no matrix cell and to no target value: cells and target
\* values are means over the records with a positive odd, cells count only
\* their bookmakers, and no call raises.
C10_MalformedRecordsExcluded ==
    /\ last_call.op \in {"__init__", "process_fixture_odds"} => last_call.status = "ok"
    /\ \A pair \in DOMAIN historical_feature_matrix.cells :
          LET S == PositiveRecords(historical_odds_data.rows, pair)
          IN  /\ Cardinality(Bookmakers(historical_odds_data.rows, S))
                     >= thresholds.MIN_BOOKMAKERS_THRESHOLD
              /\ IsMeanOf(historical_feature_matrix.cells[pair],
                          historical_odds_data.rows, S)
    /\ TargetReturned =>
          \A b \in DOMAIN last_call.value :
              IsMeanOf(last_call.value[b], TargetQuotes,
                       PositiveRecords(TargetQuotes, <<TargetFixture, b>>))

---------------------------------------------------------------------------
(* Construction under an edited src/src/config.py                          *)

\* the values __init__ copies when one threshold of src/src/config.py has been
\* edited to a negative count or to a tolerance that is not positive
EditedConfigurations ==
    {[SIMILARITY_THRESHOLD |-> st,
      MIN_BOOKMAKERS_THRESHOLD |-> mb,
      MIN_SIMILAR_MATCHES_THRESHOLD |-> ms,
      has_MIN_SIMILARITY_PCT_THRESHOLD |-> FALSE,
      MIN_SIMILARITY_PCT_THRESHOLD |-> MIN_SIMILARITY_PCT_THRESHOLD] :
        st \in {SIMILARITY_THRESHOLD, 0, -SIMILARITY_THRESHOLD},
        mb \in {MIN_BOOKMAKERS_THRESHOLD, -1},
        ms \in {MIN_SIMILAR_MATCHES_THRESHOLD, -1}}

\* the corpora the edited configurations are run against
EditedCorpora ==
    {EmptyDataFrame, Corpus(BulkSize, TailSmall, "none"), Corpus(BulkSize, TailLarge, "two")}

\* DailyPredictionsWorkflow.__init__ with the thresholds of an edited config.py
InitEdited ==
    /\ thresholds \in EditedConfigurations
    /\ historical_odds_data \in EditedCorpora
    /\ LET built == create_comprehensive_feature_matrix(historical_odds_data, thresholds)
       IN  /\ historical_feature_matrix = built.value
           /\ last_call = [op |-> "__init__", arg |-> <<>>,
                           status |-> built.status, value |-> <<>>]
    /\ AnalyzerUnused
    /\ NothingWritten
    /\ EloUnused

SpecEdited == InitEdited /\ [][Next]_vars

ValidConfiguration(th) ==
    /\ th.MIN_BOOKMAKERS_THRESHOLD >= 0
    /\ th.MIN_SIMILAR_MATCHES_THRESHOLD >= 0
    /\ th.SIMILARITY_THRESHOLD > 0

\* C11: a workflow whose thresholds are invalid (a negative
\* MIN_BOOKMAKERS_THRESHOLD or MIN_SIMILAR_MATCHES_THRESHOLD, or a
\* SIMILARITY_THRESHOLD <= 0) is never constructed: its construction has
\* failed, it holds no matrix, and no call on it has returned anything.
C11_InvalidConfigurationRejected ==
    ~ValidConfiguration(thresholds) =>
        /\ last_call.op = "__init__"
        /\ last_call.status # "ok"
        /\ IsEmptyMatrix(historical_feature_matrix)

---------------------------------------------------------------------------
(* Order of the records                                                    *)

Rebuilt == last_call.op = "create_comprehensive_feature_matrix"

C12_WitnessRepeat ==
    /\ Rebuilt
    /\ last_call.arg = "same"
    /\ ~IsEmptyMatrix(last_call.value)

---------------------------------------------------------------------------
(* match_analyzer: preprocessing and the analysis of one fixture           *)

FracAdd(a, b) == Frac(a.num * b.den + b.num * a.den, a.den * b.den)

FracAbsDiff(a, b) == Frac(Abs(a.num * b.den - b.num * a.den), a.den * b.den)

Goals(n) == [nan |-> FALSE, val |-> n]
NoGoals == [nan |-> TRUE, val |-> 0]

MatchColumns ==
    {"fixture_id", "home_team_name", "away_team_name", "home_goals", "away_goals"}

Match(f, home, away, hg, ag) ==
    [fixture_id |-> f, home_team_name |-> home, away_team_name |-> away,
     home_goals |-> hg, away_goals |-> ag]

\* np.select(conditions, ['Home', 'Away'], default='Draw') on one row
result_of(r) ==
    IF r.home_goals.val > r.away_goals.val THEN "Home"
    ELSE IF r.home_goals.val < r.away_goals.val THEN "Away"
    ELSE "Draw"

\* match_analyzer.get_match_results: the rows with both goals known, with
\* their result, duplicates dropped
get_match_results(df) ==
    IF IsEmpty(df) THEN {}
    ELSE {[fixture_id |-> df.rows[i].fixture_id,
           home_team_name |-> df.rows[i].home_team_name,
           away_team_name |-> df.rows[i].away_team_name,
           result |-> result_of(df.rows[i])] :
              i \in {j \in 1..Len(df.rows) :
                        ~df.rows[j].home_goals.nan /\ ~df.rows[j].away_goals.nan}}

\* pd.merge(feature_matrix, match_results, left_index=True,
\*          right_on='fixture_id', how='inner').set_index('fixture_id')
merge_inner(feature_matrix, match_results) ==
    LET joined == {r \in match_results : r.fixture_id \in feature_matrix.index}
        index == {r.fixture_id : r \in joined}
    IN  [exists |-> TRUE,
         matrix |-> [index |-> index,
                     columns |-> feature_matrix.columns,
                     cells |-> [c \in {d \in DOMAIN feature_matrix.cells : d[1] \in index}
                                   |-> feature_matrix.cells[c]]],
         result |-> [f \in index |->
                        (CHOOSE r \in joined : r.fixture_id = f).result]]

\* match_analyzer.preprocess_and_save_data under the configuration module
\* `config`: the call's outcome and the file it leaves at PROCESSED_DATA_PATH
preprocess_and_save_data(env, file, config) ==
    IF IsEmpty(env.odds) \/ IsEmpty(env.matches)
    THEN [status |-> "ok", value |-> file]
    ELSE LET feature_matrix == create_feature_matrix(env.odds, config)
         IN  IF feature_matrix.status # "ok"
             THEN [status |-> feature_matrix.status, value |-> file]
             ELSE [status |-> "ok",
                   value |-> merge_inner(feature_matrix.value,
                                         get_match_results(env.matches))]

\* the API's answer to GET /v3/odds?fixture=<fixture_id>
Quoted(odd) ==
    [status_code |-> 200,
     response |-> <<[bookmakers |->
                       [i \in 1..5 |-> BookmakerEntry(i, MatchWinner, Home, NumStr(odd))]]>>]

ApiAnswer(fixture_id) ==
    CASE fixture_id = 2001 -> Quoted(150)
      [] fixture_id = 2002 -> Quoted(900)
      [] fixture_id = 2003 -> [status_code |-> 200, response |-> <<>>]
      [] fixture_id = 2004 -> [status_code |-> 404, response |-> <<>>]

AnalysedFixtures == {2001, 2002, 2003, 2004}

\* match_analyzer.get_api_odds_for_fixture
get_api_odds_for_fixture(fixture_id, env, config) ==
    IF ~env.RAPIDAPI_KEY /\ config.RAPIDAPI_KEY = <<>>
    THEN [status |-> "ValueError", value |-> EmptyMatrix]
    ELSE IF ApiAnswer(fixture_id).status_code >= 400
    THEN [status |-> "HTTPError", value |-> EmptyMatrix]
    ELSE LET rows == processed_odds(fixture_id, ApiAnswer(fixture_id).response)
         IN  IF rows = <<>> THEN [status |-> "ok", value |-> EmptyMatrix]
             ELSE create_feature_matrix([columns |-> OddsColumns, rows |-> rows], config)

RECURSIVE SumDiff(_, _, _, _)
SumDiff(matrix, f, target_vector, bets) ==
    IF bets = {} THEN Frac(0, 1)
    ELSE LET b == CHOOSE x \in bets : TRUE
         IN  FracAdd(FracAbsDiff(matrix.cells[<<f, b>>], target_vector[b]),
                     SumDiff(matrix, f, target_vector, bets \ {b}))

\* match_analyzer.find_similar_matches: the fixtures whose mean absolute
\* difference over the common bets (null cells skipped) is below the threshold
find_similar_matches(target_vector, historical_matrix, threshold) ==
    LET common_bets == DOMAIN target_vector \cap historical_matrix.columns
    IN  IF common_bets = {} THEN {}
        ELSE {f \in historical_matrix.index :
                 LET quoted == {b \in common_bets : <<f, b>> \in DOMAIN historical_matrix.cells}
                     total == SumDiff(historical_matrix, f, target_vector, quoted)
                 IN  /\ quoted # {}
                     /\ total.num < threshold * Cardinality(quoted) * total.den}

\* results_of_similar.value_counts(normalize=True), times 100
probabilities_of(results, similar) ==
    [k \in {results[f] : f \in similar} |->
        Frac(100 * Cardinality({f \in similar : results[f] = k}), Cardinality(similar))]

\* str(e) of the exception that ends the analysis
str(e) ==
    CASE e = "FileNotFoundError" -> "[Errno 2] No such file or directory: 'data/analysis_data.parquet'"
      [] e = "AttributeError" -> "module 'analysis.config' has no attribute 'KEY_BET_TYPES'"
      [] e = "HTTPError" -> "404 Client Error"
      [] e = "ValueError" -> "RapidAPI key not found in config or environment variables."
      [] e = "TypeError" -> "agg function failed [how->mean,dtype->object]"
      [] OTHER -> e

Report(status, error_message, count, probabilities) ==
    [status |-> status, error_message |-> error_message,
     similar_matches_count |-> count, probabilities |-> probabilities]

\* mutation of analyze_fixture: an exception of the odds request is swallowed
\* and the report says success
analyze_fixture_swallowing(fixture_id, env, file, config) ==
    IF ~file.exists THEN Report("failed", str("FileNotFoundError"), 0, <<>>)
    ELSE LET target_odds_vector == get_api_odds_for_fixture(fixture_id, env, config)
         IN  IF target_odds_vector.status # "ok" \/ IsEmptyMatrix(target_odds_vector.value)
             THEN Report("success", "", 0, <<>>)
             ELSE Report("success", "No historically similar matches found.", 0, <<>>)

\* match_analyzer.analyze_fixture: the report it writes
\* (prediction_timestamp and avg_similarity_score are left out)
analyze_fixture(fixture_id, env, file, config) ==
    IF ~file.exists THEN Report("failed", str("FileNotFoundError"), 0, <<>>)
    ELSE LET target_odds_vector == get_api_odds_for_fixture(fixture_id, env, config)
         IN  IF target_odds_vector.status # "ok"
             THEN Report("failed", str(target_odds_vector.status), 0, <<>>)
             ELSE IF IsEmptyMatrix(target_odds_vector.value)
             THEN Report("failed", "Could not retrieve or process odds for fixture", 0, <<>>)
             ELSE LET target_vector ==
                          [b \in target_odds_vector.value.columns |->
                              target_odds_vector.value.cells[<<fixture_id, b>>]]
                      similar ==
                          find_similar_matches(target_vector, file.matrix,
                                               config.SIMILARITY_THRESHOLD)
                  IN  IF similar = {}
                      THEN Report("success", "No historically similar matches found.", 0, <<>>)
                      ELSE Report("success", "", Cardinality(similar),
                                  probabilities_of(file.result, similar))

\* src/analysis/config.py with the KEY_BET_TYPES of src/src/config.py: the
\* configuration of the run that has left a processed file behind
KeyedConfig ==
    [ODDS_DATA_DIR |-> analysis_config.ODDS_DATA_DIR,
     MATCH_DATA_DIR |-> analysis_config.MATCH_DATA_DIR,
     PROCESSED_DATA_PATH |-> analysis_config.PROCESSED_DATA_PATH,
     RAPIDAPI_KEY |-> analysis_config.RAPIDAPI_KEY,
     SIMILARITY_THRESHOLD |-> analysis_config.SIMILARITY_THRESHOLD,
     MIN_BOOKMAKERS_THRESHOLD |-> analysis_config.MIN_BOOKMAKERS_THRESHOLD,
     KEY_BET_TYPES |-> {MatchWinner, OverUnder, <<"Both Teams to Score">>,
                        <<"Double Chance">>, <<"Correct Score">>,
                        <<"Half Time/Full Time">>}]

\* the odds CSVs: HistoryNear fixtures quoted around 1.50 by five bookmakers,
\* one more quoted at 3.00
HistoryOdds ==
    [columns |-> OddsColumns,
     rows |-> Concat([f \in 1..HistoryNear |->
                        MainQuotes(f, <<1, 2, 3, 4, 5>>,
                                   <<Num(148), Num(150), Num(150), Num(150), Num(152)>>)])
                 \o MainQuotes(HistoryNear + 1, <<1, 2, 3, 4, 5>>,
                               <<Num(300), Num(300), Num(300), Num(300), Num(300)>>)]

\* the score of historical fixture f in the match CSVs
Score(f) ==
    CASE f % 3 = 1 -> <<Goals(2), Goals(0)>>
      [] f % 3 = 2 -> <<Goals(0), Goals(1)>>
      [] f % 3 = 0 -> <<Goals(1), Goals(1)>>

\* the match CSVs: every fixture played (the first listed by two files), or
\* the fixtures quoted around 1.50 without goals yet
HistoryMatches(played) ==
    [columns |-> MatchColumns,
     rows |-> [i \in 1..(HistoryNear + 2) |->
                  LET f == IF i = HistoryNear + 2 THEN 1 ELSE i
                  IN  IF played \/ f = HistoryNear + 1
                      THEN Match(f, <<"H", f>>, <<"A", f>>, Score(f)[1], Score(f)[2])
                      ELSE Match(f, <<"H", f>>, <<"A", f>>, NoGoals, NoGoals)]]

AnalyzerEnvs ==
    {[RAPIDAPI_KEY |-> key, odds |-> odds, matches |-> matches] :
        key \in BOOLEAN,
        odds \in {EmptyDataFrame, HistoryOdds},
        matches \in {EmptyDataFrame, HistoryMatches(TRUE), HistoryMatches(FALSE)}}

\* the workflow is not constructed in a run of match_analyzer
WorkflowUnused ==
    /\ thresholds = <<>>
    /\ historical_odds_data = EmptyDataFrame
    /\ historical_feature_matrix = EmptyMatrix

\* before the first command of match_analyzer.main: the processed file is
\* absent, or is the one a preprocessing run under KeyedConfig has written
InitAnalyzer ==
    /\ WorkflowUnused
    /\ analyzer_env \in AnalyzerEnvs
    /\ processed_data \in
           {[exists |-> FALSE],
            preprocess_and_save_data(analyzer_env, [exists |-> FALSE], KeyedConfig).value}
    /\ predictions = <<>>
    /\ NothingWritten
    /\ EloUnused
    /\ last_call = [op |-> "import", arg |-> <<>>, status |-> "ok", value |-> <<>>]

\* python -m analysis.match_analyzer --preprocess
PreprocessAndSaveData ==
    LET ret == preprocess_and_save_data(analyzer_env, processed_data, analysis_config)
    IN  /\ processed_data' = ret.value
        /\ last_call' = [op |-> "preprocess_and_save_data", arg |-> <<>>,
                         status |-> ret.status, value |-> <<>>]
        /\ UNCHANGED <<workflow_vars, analyzer_env, predictions, predictions_dir, elo_vars, data_files>>

\* python -m analysis.match_analyzer --analyze FIXTURE_ID: the report is
\* written to prediction_<fixture_id>.json whatever happened
AnalyzeFixture ==
    \E fixture_id \in AnalysedFixtures :
        /\ predictions' =
               (fixture_id :> analyze_fixture(fixture_id, analyzer_env, processed_data,
                                              analysis_config)) @@ predictions
        /\ last_call' = [op |-> "analyze_fixture", arg |-> fixture_id,
                         status |-> "ok", value |-> <<>>]
        /\ UNCHANGED <<workflow_vars, analyzer_env, processed_data, predictions_dir, elo_vars, data_files>>

NextAnalyzer ==
    \/ PreprocessAndSaveData
    \/ AnalyzeFixture

SpecAnalyzer == InitAnalyzer /\ [][NextAnalyzer]_vars

---------------------------------------------------------------------------
(* Reports of the analysis                                                 *)

\* the records of the API's answer for a fixture, their odds read as numbers
AnswerRecords(fixture_id) ==
    LET rows == processed_odds(fixture_id, ApiAnswer(fixture_id).response)
    IN  [i \in 1..Len(rows) |->
            [rows[i] EXCEPT !.odd = IF to_numeric(@).nan THEN Null
                                    ELSE Num(to_numeric(@).val)]]

\* the mean odds of the target fixture over its reliable key bets
TargetMeans(fixture_id) ==
    LET matrix == create_feature_matrix(
                      [columns |-> OddsColumns, rows |-> AnswerRecords(fixture_id)],
                      KeyedConfig).value
    IN  [b \in matrix.columns |-> matrix.cells[<<fixture_id, b>>]]

\* the historical fixtures of the odds CSVs that qualify as similar to the target
Qualifying(fixture_id) ==
    find_similar_matches(TargetMeans(fixture_id),
                         create_feature_matrix(analyzer_env.odds, KeyedConfig).value,
                         analysis_config.SIMILARITY_THRESHOLD)

\* the historical fixtures whose result is known from the match CSVs
KnownResults == {r.fixture_id : r \in get_match_results(analyzer_env.matches)}

Answered(fixture_id) ==
    /\ analyzer_env.RAPIDAPI_KEY
    /\ processed_data.exists
    /\ ApiAnswer(fixture_id).status_code = 200
    /\ DOMAIN TargetMeans(fixture_id) # {}

NoSimilarCase(fixture_id) ==
    Answered(fixture_id) /\ Qualifying(fixture_id) = {}

NoDataCase(fixture_id) ==
    /\ Answered(fixture_id)
    /\ Qualifying(fixture_id) # {}
    /\ Qualifying(fixture_id) \cap KnownResults = {}

\* C13: the report of a fixture for which no historical fixture qualified
\* ('no similar matches') and the report of a fixture whose similar fixtures
\* all lack a known result ('no data') never carry the same status and message.
C13_NoDataDistinctFromNoSimilar ==
    \A f1, f2 \in DOMAIN predictions :
        (NoSimilarCase(f1) /\ NoDataCase(f2)) =>
            <<predictions[f1].status, predictions[f1].error_message>>
                # <<predictions[f2].status, predictions[f2].error_message>>

---------------------------------------------------------------------------
(* The API client and the daily run                                        *)

\* for attempt in range(3)
Attempts == 3

None == [none |-> TRUE, body |-> <<>>]
Json(body) == [none |-> FALSE, body |-> body]

\* what one requests.get(...) can do: answer with a status code and a JSON
\* body, or raise a requests.exceptions.RequestException
Answer(status_code, body) ==
    [kind |-> "response", status_code |-> status_code, json |-> Json(body)]

RequestException == [kind |-> "RequestException", status_code |-> 0, json |-> None]

\* the loop of make_api_request from attempt number `attempt` on; outcomes[i]
\* is what the i-th requests.get does, call_count the number of calls made
RECURSIVE make_api_request_from(_, _)
make_api_request_from(outcomes, attempt) ==
    IF attempt > Attempts
    THEN [status |-> "ok", value |-> [data |-> None, call_count |-> Attempts]]
    ELSE IF outcomes[attempt].kind = "response" /\ outcomes[attempt].status_code = 200
    THEN [status |-> "ok",
          value |-> [data |-> outcomes[attempt].json, call_count |-> attempt]]
    ELSE make_api_request_from(outcomes, attempt + 1)

\* mutation of make_api_request: one attempt, no retry
make_api_request_once(outcomes) ==
    IF outcomes[1].kind = "response" /\ outcomes[1].status_code = 200
    THEN [status |-> "ok", value |-> [data |-> outcomes[1].json, call_count |-> 1]]
    ELSE [status |-> "ok", value |-> [data |-> None, call_count |-> 1]]

\* DailyPredictionsWorkflow.make_api_request
make_api_request(outcomes) == make_api_request_from(outcomes, 1)

\* the odds endpoint, by fixture of the day: what its successive calls do
OddsApi(fixture_id) ==
    CASE fixture_id = 3001 ->
             <<RequestException, Answer(500, <<>>),
               Answer(200, [response |-> Payload(MaxQuoting, 0, "none")])>>
      [] fixture_id = 3002 ->
             <<RequestException, RequestException, Answer(503, <<>>)>>
      [] fixture_id = 3003 ->
             <<Answer(200, [response |-> <<>>]), RequestException, RequestException>>
      [] fixture_id = 3004 ->
             <<Answer(429, <<>>), Answer(200, [response |-> Payload(0, 0, "text")]),
               RequestException>>
      [] fixture_id = 3005 ->
             <<Answer(200, [response |-> Payload(0, MaxSideQuoting, "none")]),
               RequestException, RequestException>>
      [] fixture_id = 3006 ->
             <<Answer(200, [errors |-> <<"rate limit">>]), RequestException,
               RequestException>>

DayFixtures == <<3001, 3002, 3003, 3004, 3005, 3006>>

\* DailyPredictionsWorkflow.get_fixture_odds
get_fixture_odds(fixture_id) ==
    LET data == make_api_request(OddsApi(fixture_id)).value.data
    IN  IF ~data.none /\ "response" \in DOMAIN data.body
        THEN Json(data.body.response)
        ELSE None

\* bet_identifier.split('_', 1)
split1(s) ==
    LET i == CHOOSE k \in 1..Len(s) : s[k] = "_" /\ \A j \in 1..(k - 1) : s[j] # "_"
    IN  <<SubSeq(s, 1, i - 1), SubSeq(s, i + 1, Len(s))>>

NoBetsRow(fixture_id) == [fixture_id |-> fixture_id, bet_type |-> <<"NO_BETS">>]

BetRow(fixture_id, bet, sim_data) ==
    [fixture_id |-> fixture_id,
     bet_type |-> split1(bet)[1],
     bet_value |-> split1(bet)[2],
     target_odd |-> sim_data.target_odd,
     similarity_pct |-> sim_data.similarity_percentage,
     similar_matches_count |-> sim_data.similar_matches_count,
     similarity_reference_count |-> sim_data.similarity_reference_count]

\* for bet_identifier, sim_data in similarities.items(): one row per bet
RECURSIVE BetRows(_, _, _)
BetRows(fixture_id, similarities, bets) ==
    IF bets = {} THEN <<>>
    ELSE LET b == CHOOSE x \in bets : TRUE
         IN  <<BetRow(fixture_id, b, similarities[b])>>
                 \o BetRows(fixture_id, similarities, bets \ {b})

\* the body of the loop of create_daily_predictions_csv: the rows one fixture
\* adds to all_long_format_predictions (the columns of base_data other than
\* fixture_id are left out)
fixture_rows(fixture_data, matrix, th) ==
    LET fixture_id == fixture_data.fixture.id
        odds_data == get_fixture_odds(fixture_id)
    IN  IF odds_data.none \/ odds_data.body = <<>>
        THEN [status |-> "ok", value |-> <<>>]
        ELSE LET target_odds == process_fixture_odds(fixture_id, odds_data.body).value
             IN  IF DOMAIN target_odds = {}
                 THEN [status |-> "ok", value |-> <<>>]
                 ELSE LET similarities ==
                              calculate_similarity_for_all_bets(target_odds, matrix, th)
                      IN  IF similarities.status # "ok"
                          THEN [status |-> similarities.status, value |-> <<>>]
                          ELSE IF DOMAIN similarities.value = {}
                          THEN [status |-> "ok", value |-> <<NoBetsRow(fixture_id)>>]
                          ELSE [status |-> "ok",
                                value |-> BetRows(fixture_id, similarities.value,
                                                  DOMAIN similarities.value)]

\* all_long_format_predictions at the end of the loop, or the exception that
\* has ended the loop
all_long_format_predictions(fixtures_data, matrix, th) ==
    LET per_fixture == [i \in 1..Len(fixtures_data) |->
                           fixture_rows(fixtures_data[i], matrix, th)]
        raised == {i \in 1..Len(fixtures_data) : per_fixture[i].status # "ok"}
    IN  IF raised # {}
        THEN [status |-> per_fixture[CHOOSE i \in raised : \A j \in raised : i <= j].status,
              value |-> <<>>]
        ELSE [status |-> "ok",
              value |-> Concat([i \in 1..Len(fixtures_data) |-> per_fixture[i].value])]

\* mutation of written_files: the historical file is rewritten with the rows
\* of the run only
written_files_replacing(dir, rows) ==
    IF rows = <<>> THEN dir
    ELSE [daily |-> [exists |-> TRUE, rows |-> rows],
          historical |-> [exists |-> TRUE, rows |-> rows]]

\* the two CSV files after create_daily_predictions_csv has collected `rows`
written_files(dir, rows) ==
    IF rows = <<>> THEN dir
    ELSE [daily |-> [exists |-> TRUE, rows |-> rows],
          historical |-> [exists |-> TRUE,
                          rows |-> IF dir.historical.exists
                                   THEN dir.historical.rows \o rows
                                   ELSE rows]]

\* the fixtures get_today_fixtures hands over: up to MaxFixtures consecutive
\* fixtures of the day, from any of them on
FixturesData ==
    {[i \in 1..n |-> [fixture |-> [id |-> DayFixtures[((start + i - 2) % Len(DayFixtures)) + 1]]]] :
        n \in 0..MaxFixtures, start \in 1..Len(DayFixtures)}

\* the loop and the writes of create_daily_predictions_csv
DailyRun ==
    /\ Constructed
    /\ predictions_dir.historical.exists =>
           Len(predictions_dir.historical.rows) < MaxStored
    /\ \E fixtures_data \in FixturesData :
           LET collected == all_long_format_predictions(fixtures_data,
                                historical_feature_matrix, thresholds)
           IN  /\ predictions_dir' = written_files(predictions_dir, collected.value)
               /\ last_call' = [op |-> "create_daily_predictions_csv",
                                arg |-> fixtures_data,
                                status |-> collected.status,
                                value |-> collected.value]

\* mutation of CreateDailyPredictionsCsv: the run leaves an emptied matrix
CreateDailyPredictionsCsv_clearing ==
    /\ DailyRun
    /\ historical_feature_matrix' = EmptyMatrix
    /\ UNCHANGED <<thresholds, historical_odds_data, analyzer_vars, elo_vars, data_files>>

\* DailyPredictionsWorkflow.create_daily_predictions_csv
CreateDailyPredictionsCsv ==
    /\ DailyRun
    /\ UNCHANGED <<workflow_vars, analyzer_vars, elo_vars, data_files>>

\* the corpora the daily run is explored with
DailyCorpora ==
    {EmptyDataFrame, Corpus(BulkSize, TailSmall, "none"), Corpus(BulkSize, TailLarge, "two")}

InitDaily == Init /\ historical_odds_data \in DailyCorpora

NextDaily == CreateDailyPredictionsCsv

SpecDaily == InitDaily /\ [][NextDaily]_vars

---------------------------------------------------------------------------
(* Rows of the daily file                                                  *)

DailyReturned ==
    last_call.op = "create_daily_predictions_csv" /\ last_call.status = "ok"

Reported(fixture_id, rows) ==
    \E k \in 1..Len(rows) : rows[k].fixture_id = fixture_id

\* C14: every fixture handed to create_daily_predictions_csv has at least one
\* row among the rows of the run, which are the rows of the daily file: a
\* prediction row, or a row with bet_type NO_BETS when no prediction can be
\* produced for it (no odds retrieved, odds unprocessable, no bet passing the
\* gates).
C14_EveryFixtureReported ==
    DailyReturned =>
        \A i \in 1..Len(last_call.arg) :
            /\ Reported(last_call.arg[i].fixture.id, last_call.value)
            /\ predictions_dir.daily.exists
            /\ Reported(last_call.arg[i].fixture.id, predictions_dir.daily.rows)

\* the fixtures of the processed file similar to the target fixture
SimilarInFile(fixture_id) ==
    IF processed_data.exists
    THEN find_similar_matches(TargetMeans(fixture_id), processed_data.matrix,
                              analysis_config.SIMILARITY_THRESHOLD)
    ELSE {}

RECURSIVE SumValues(_, _)
SumValues(probabilities, keys) ==
    IF keys = {} THEN Frac(0, 1)
    ELSE LET k == CHOOSE x \in keys : TRUE
         IN  FracAdd(probabilities[k], SumValues(probabilities, keys \ {k}))

---------------------------------------------------------------------------
(* Identifiers                                                             *)

\* the (bet_type_name, bet_value) pairs of the records
Outcomes(rows) == {<<rows[i].bet_type_name, rows[i].bet_value>> : i \in 1..Len(rows)}

IdentifierOf(outcome) ==
    bet_identifier([bet_type_name |-> outcome[1], bet_value |-> outcome[2]])

\* C16: two records of the corpus with different (bet_type_name, bet_value)
\* pairs never get the same bet_identifier, and no column of the matrix
\* stands for more than one pair, also when a name or a value contains "_".
C16_IdentifierNamesOneOutcome ==
    /\ \A p, q \in Outcomes(historical_odds_data.rows) :
           p # q => IdentifierOf(p) # IdentifierOf(q)
    /\ \A b \in historical_feature_matrix.columns :
           Cardinality({p \in Outcomes(historical_odds_data.rows) : IdentifierOf(p) = b}) = 1

---------------------------------------------------------------------------
(* The matrix after construction                                           *)

\* the workflow constructed over one corpus, then its operations in any order
InitOperations == Init /\ historical_odds_data = Corpus(BulkSize, TailLarge, "two")

NextOperations == Next \/ NextDaily

SpecOperations == InitOperations /\ [][NextOperations]_vars

\* C17: after construction no operation (process_fixture_odds,
\* calculate_similarity_for_all_bets, create_daily_predictions_csv) changes
\* the historical feature matrix: every step leaves its fixtures, its columns
\* and its cells as they were.
C17_MatrixIsReadOnly ==
    [][historical_feature_matrix' = historical_feature_matrix]_vars

\* a daily run has returned a prediction row and has written both files, and
\* the matrix is the non-empty matrix built at construction
C17_Witness ==
    /\ DailyReturned
    /\ \E k \in 1..Len(last_call.value) : last_call.value[k].bet_type # <<"NO_BETS">>
    /\ predictions_dir.historical.exists
    /\ ~IsEmptyMatrix(historical_feature_matrix)
    /\ historical_feature_matrix
           = create_comprehensive_feature_matrix(historical_odds_data, thresholds).value

---------------------------------------------------------------------------
(* Attempts of one API request                                             *)

\* what each of the successive requests.get calls of one request can do
AttemptOutcomes ==
    {Answer(200, [response |-> <<>>]), Answer(200, [errors |-> <<"rate limit">>]),
     Answer(404, <<>>), Answer(500, <<>>), RequestException}

OutcomeSequences == [1..Attempts -> AttemptOutcomes]

\* DailyPredictionsWorkflow.make_api_request, called on a constructed workflow
MakeApiRequest ==
    /\ Constructed
    /\ \E outcomes \in OutcomeSequences :
           Call("make_api_request", outcomes, make_api_request(outcomes))

InitApi == Init /\ historical_odds_data = EmptyDataFrame

SpecApi == InitApi /\ [][MakeApiRequest]_vars

ApiReturned == last_call.op = "make_api_request"

Succeeds(outcome) == outcome.kind = "response" /\ outcome.status_code = 200

C18_WitnessFirst ==
    /\ ApiReturned
    /\ Succeeds(last_call.arg[1])
    /\ ~Succeeds(last_call.arg[2])
    /\ last_call.value.call_count = 1
    /\ last_call.value.data = last_call.arg[1].json

\* three failed attempts: None
C18_WitnessNone ==
    /\ ApiReturned
    /\ last_call.arg[1].kind = "RequestException"
    /\ last_call.arg[2].kind = "response"
    /\ last_call.value.call_count = 3
    /\ last_call.value.data.none

---------------------------------------------------------------------------
(* EloCalculator                                                           *)

Points(n) == 1000 * n

\* 1000 / (1 + 10**(d / 400)) at d = 0, 100, ..., 800 points
ExpectedAt == <<500, 360, 240, 151, 91, 53, 31, 18, 10>>

\* the expected score, in thousandths, of the side rated `lead` (>= 0) below
\* the other: interpolated between the hundreds of points, constant past
\* 800 points
expected_behind(lead) ==
    LET n == lead \div Points(100)
    IN  IF n >= Len(ExpectedAt) - 1 THEN ExpectedAt[Len(ExpectedAt)]
        ELSE ExpectedAt[n + 1]
                 + ((ExpectedAt[n + 2] - ExpectedAt[n + 1]) * (lead % Points(100)))
                       \div Points(100)

\* mutation of expected_score: the ratings are ignored
expected_score_even(home_elo, away_elo) == 500

\* expected_home = 1 / (1 + 10**((away_elo - home_elo) / 400)), in
\* thousandths: 500 between equal ratings, below 500 for the lower rated
\* side, above for the higher rated one
expected_score(home_elo, away_elo) ==
    IF away_elo >= home_elo THEN expected_behind(away_elo - home_elo)
    ELSE 1000 - expected_behind(home_elo - away_elo)

\* mutation of get_elo: setdefault() for get(), the initial rating is stored
get_elo_setdefault(calc, league, team) ==
    LET ratings == IF league \in DOMAIN calc.elo_ratings THEN calc.elo_ratings
                   ELSE (league :> <<>>) @@ calc.elo_ratings
        initial_elo_for_league ==
            IF league \in DOMAIN calc.league_initial_elos
            THEN calc.league_initial_elos[league] ELSE calc.initial_elo
        value == IF team \in DOMAIN ratings[league] THEN ratings[league][team]
                 ELSE initial_elo_for_league
    IN  [value |-> value,
         elo_ratings |-> [ratings EXCEPT ![league] = (team :> value) @@ @]]

\* EloCalculator.get_elo: the rating returned and self.elo_ratings afterwards
get_elo(calc, league, team) ==
    LET ratings == IF league \in DOMAIN calc.elo_ratings THEN calc.elo_ratings
                   ELSE (league :> <<>>) @@ calc.elo_ratings
        initial_elo_for_league ==
            IF league \in DOMAIN calc.league_initial_elos
            THEN calc.league_initial_elos[league] ELSE calc.initial_elo
    IN  [value |-> IF team \in DOMAIN ratings[league] THEN ratings[league][team]
                   ELSE initial_elo_for_league,
         elo_ratings |-> ratings]

\* 1000 * score_home
score_of(home_goals, away_goals) ==
    IF home_goals > away_goals THEN 1000
    ELSE IF home_goals < away_goals THEN 0
    ELSE 500

\* mutation of update_elo: the away team is scored against the home team's
\* expected score (expected_home for expected_away)
update_elo_same_expectation(calc, league, home_team, away_team, home_goals, away_goals) ==
    LET home == get_elo(calc, league, home_team)
        away == get_elo([calc EXCEPT !.elo_ratings = home.elo_ratings], league, away_team)
        expected_home == expected_score(home.value, away.value)
        score_home == score_of(home_goals, away_goals)
        score_away == 1000 - score_home
        new_home_elo == home.value + calc.k_factor * (score_home - expected_home)
        new_away_elo == away.value + calc.k_factor * (score_away - expected_home)
    IN  [away.elo_ratings EXCEPT
             ![league] = (away_team :> new_away_elo) @@ (home_team :> new_home_elo) @@ @]

\* EloCalculator.update_elo: self.elo_ratings afterwards
update_elo(calc, league, home_team, away_team, home_goals, away_goals) ==
    LET home == get_elo(calc, league, home_team)
        away == get_elo([calc EXCEPT !.elo_ratings = home.elo_ratings], league, away_team)
        expected_home == expected_score(home.value, away.value)
        expected_away == 1000 - expected_home
        score_home == score_of(home_goals, away_goals)
        score_away == 1000 - score_home
        new_home_elo == home.value + calc.k_factor * (score_home - expected_home)
        new_away_elo == away.value + calc.k_factor * (score_away - expected_away)
    IN  [away.elo_ratings EXCEPT
             ![league] = (away_team :> new_away_elo) @@ (home_team :> new_home_elo) @@ @]

\* self.elo_ratings of a new calculator, and the ratings the tests store in
\* it before a call
PriorRatings ==
    {<<>>,
     "Ligue 1" :> ("Team A" :> Points(1650)),
     "Test League" :> (("Team A" :> Points(1600)) @@ ("Team B" :> Points(1400))),
     "Test League" :> (("Team B" :> Points(1650)) @@ ("Team C" :> Points(1450)))}

\* the calculators created: the one of the test fixture and the one of main()
Calculators ==
    {[k_factor |-> k,
      initial_elo |-> Points(1500),
      league_initial_elos |-> IF k = 30
                              THEN ("Ligue 1" :> Points(1600)) @@ ("Ligue 2" :> Points(1400))
                              ELSE ("Ligue 1" :> Points(1500)) @@ ("Ligue 2" :> Points(1350)),
      elo_ratings |-> prior] : k \in {30, 40}, prior \in PriorRatings}

Leagues == {"Ligue 1", "Ligue 2", "Test League"}
Teams == <<"Team A", "Team B", "Team C">>

\* row i of the match files in the order they are processed: a league, two
\* different teams of it, and the score
MatchRow(i, home_goals, away_goals) ==
    [league |-> IF i % 3 = 0 THEN "Ligue 1" ELSE "Test League",
     home_team_name |-> Teams[(i % Len(Teams)) + 1],
     away_team_name |-> Teams[((i + 1 + ((i \div Len(Teams)) % 2)) % Len(Teams)) + 1],
     home_goals |-> home_goals,
     away_goals |-> away_goals]

Scores == {<<2, 0>>, <<1, 1>>, <<0, 1>>}

\* calculator = EloCalculator(...)
InitElo ==
    /\ WorkflowUnused
    /\ AnalyzerUnused
    /\ NothingWritten
    /\ calculator \in Calculators
    /\ matches_processed = 0
    /\ last_call = [op |-> "EloCalculator", arg |-> <<>>, status |-> "ok", value |-> <<>>]

\* calculator.get_elo(league, team)
GetElo ==
    \E league \in Leagues, t \in 1..Len(Teams) :
        LET ret == get_elo(calculator, league, Teams[t])
        IN  /\ calculator' = [calculator EXCEPT !.elo_ratings = ret.elo_ratings]
            /\ last_call' = [op |-> "get_elo",
                             arg |-> [league |-> league, team |-> Teams[t],
                                      elo_ratings |-> calculator.elo_ratings],
                             status |-> "ok", value |-> ret.value]
            /\ UNCHANGED <<workflow_vars, analyzer_vars, predictions_dir, matches_processed, data_files>>

\* one iteration of the loop of process_league_matches: calculator.update_elo
\* on the next row of the match files
UpdateElo ==
    /\ matches_processed < MaxMatches
    /\ \E score \in Scores :
           LET row == MatchRow(matches_processed, score[1], score[2])
           IN  /\ calculator' =
                      [calculator EXCEPT !.elo_ratings =
                          update_elo(calculator, row.league, row.home_team_name,
                                     row.away_team_name, row.home_goals, row.away_goals)]
               /\ last_call' = [op |-> "update_elo",
                                arg |-> [row |-> row,
                                         elo_ratings |-> calculator.elo_ratings],
                                status |-> "ok", value |-> <<>>]
    /\ matches_processed' = matches_processed + 1
    /\ UNCHANGED <<workflow_vars, analyzer_vars, predictions_dir, data_files>>

NextElo ==
    \/ GetElo
    \/ UpdateElo

SpecElo == InitElo /\ [][NextElo]_vars

---------------------------------------------------------------------------
(* Ratings                                                                 *)

EloUpdated == last_call.op = "update_elo"

\* the rating of a team under the ratings `elo_ratings`: the stored one, or
\* the initial rating of its league
RatingUnder(elo_ratings, league, team) ==
    IF league \in DOMAIN elo_ratings /\ team \in DOMAIN elo_ratings[league]
    THEN elo_ratings[league][team]
    ELSE IF league \in DOMAIN calculator.league_initial_elos
    THEN calculator.league_initial_elos[league]
    ELSE calculator.initial_elo

HomeChange ==
    RatingUnder(calculator.elo_ratings, last_call.arg.row.league,
                last_call.arg.row.home_team_name)
        - RatingUnder(last_call.arg.elo_ratings, last_call.arg.row.league,
                      last_call.arg.row.home_team_name)

AwayChange ==
    RatingUnder(calculator.elo_ratings, last_call.arg.row.league,
                last_call.arg.row.away_team_name)
        - RatingUnder(last_call.arg.elo_ratings, last_call.arg.row.league,
                      last_call.arg.row.away_team_name)

\* C19: update_elo on two different teams of a league is zero-sum: the home
\* team's rating change plus the away team's rating change is 0, whatever
\* the prior ratings and the score.
C19_UpdateIsZeroSum ==
    EloUpdated =>
        /\ last_call.arg.row.home_team_name # last_call.arg.row.away_team_name
        /\ HomeChange + AwayChange = 0

\* an away win of the lower rated team against a home team rated 200 points
\* higher: both ratings have changed
C19_Witness ==
    /\ EloUpdated
    /\ last_call.arg.row.home_goals < last_call.arg.row.away_goals
    /\ RatingUnder(last_call.arg.elo_ratings, last_call.arg.row.league,
                   last_call.arg.row.home_team_name)
           - RatingUnder(last_call.arg.elo_ratings, last_call.arg.row.league,
                         last_call.arg.row.away_team_name) >= Points(200)
    /\ AwayChange > Points(15)
    /\ HomeChange < 0


EloLookedUp == last_call.op = "get_elo"

\* the team looked up has a rating in the ratings `elo_ratings`
Rated(elo_ratings) ==
    /\ last_call.arg.league \in DOMAIN elo_ratings
    /\ last_call.arg.team \in DOMAIN elo_ratings[last_call.arg.league]

C20_WitnessStored ==
    /\ EloLookedUp
    /\ Rated(last_call.arg.elo_ratings)
    /\ last_call.value # calculator.initial_elo
    /\ last_call.arg.league \in DOMAIN calculator.league_initial_elos
    /\ last_call.value # calculator.league_initial_elos[last_call.arg.league]

\* a team without a rating in a league without an initial rating of its
\* own, while other teams of the league are rated
C20_WitnessGlobal ==
    /\ EloLookedUp
    /\ ~Rated(last_call.arg.elo_ratings)
    /\ last_call.arg.league \notin DOMAIN calculator.league_initial_elos
    /\ last_call.arg.league \in DOMAIN last_call.arg.elo_ratings
    /\ last_call.arg.elo_ratings[last_call.arg.league] # <<>>

HomeBefore ==
    RatingUnder(last_call.arg.elo_ratings, last_call.arg.row.league,
                last_call.arg.row.home_team_name)

AwayBefore ==
    RatingUnder(last_call.arg.elo_ratings, last_call.arg.row.league,
                last_call.arg.row.away_team_name)

\* C21: after update_elo the winner's rating is strictly higher and the
\* loser's strictly lower than before; after a draw between unequally rated
\* teams the higher rated team's rating decreases and the lower rated team's
\* increases; with equal prior ratings r a home win gives exactly r + k/2 to
\* the home team and r - k/2 to the away team.
C21_RatingsFollowResult ==
    EloUpdated =>
        LET home_goals == last_call.arg.row.home_goals
            away_goals == last_call.arg.row.away_goals
        IN  /\ home_goals > away_goals => (HomeChange > 0 /\ AwayChange < 0)
            /\ home_goals < away_goals => (HomeChange < 0 /\ AwayChange > 0)
            /\ (home_goals = away_goals /\ HomeBefore > AwayBefore) =>
                   (HomeChange < 0 /\ AwayChange > 0)
            /\ (home_goals = away_goals /\ HomeBefore < AwayBefore) =>
                   (HomeChange > 0 /\ AwayChange < 0)
            /\ (home_goals > away_goals /\ HomeBefore = AwayBefore) =>
                   /\ 2 * HomeChange = Points(calculator.k_factor)
                   /\ 2 * AwayChange = - Points(calculator.k_factor)

\* a draw between teams whose ratings differ by less than 50 points
C21_Witness ==
    /\ EloUpdated
    /\ last_call.arg.row.home_goals = last_call.arg.row.away_goals
    /\ HomeBefore > AwayBefore
    /\ HomeBefore < AwayBefore + Points(50)
    /\ AwayChange > 0

\* a home win between equally rated teams
C21_WitnessEqual ==
    /\ EloUpdated
    /\ last_call.arg.row.home_goals > last_call.arg.row.away_goals
    /\ HomeBefore = AwayBefore
    /\ HomeChange > 0

\* a win of the lower rated team, playing away
C21_WitnessUpset ==
    /\ EloUpdated
    /\ last_call.arg.row.home_goals < last_call.arg.row.away_goals
    /\ HomeBefore >= AwayBefore + Points(200)
    /\ AwayChange > 0

---------------------------------------------------------------------------
(* PredictionsAnalyzer.compute_bet_success_rates                           *)
(* A bet value is a sequence of tokens with " " a token of its own.        *)

\* str.lower(), token by token
lower(s) ==
    [i \in DOMAIN s |->
        CASE s[i] = "Home" -> "home"
          [] s[i] = "Away" -> "away"
          [] s[i] = "Draw" -> "draw"
          [] s[i] = "Yes" -> "yes"
          [] s[i] = "No" -> "no"
          [] s[i] = "Over" -> "over"
          [] s[i] = "Under" -> "under"
          [] OTHER -> s[i]]

\* str.split(): the words between runs of blanks
RECURSIVE split(_)
split(s) ==
    IF s = <<>> THEN <<>>
    ELSE IF Head(s) = " " THEN split(Tail(s))
    ELSE LET n == IF \E i \in DOMAIN s : s[i] = " "
                  THEN (CHOOSE i \in DOMAIN s :
                            s[i] = " " /\ \A j \in 1..(i - 1) : s[j] # " ") - 1
                  ELSE Len(s)
         IN  <<SubSeq(s, 1, n)>> \o split(SubSeq(s, n + 1, Len(s)))

\* float(word), in tenths; ValueError for a word that is no number
float(word) ==
    CASE word = <<"1.5">> -> [status |-> "ok", value |-> 15]
      [] word = <<"2">> -> [status |-> "ok", value |-> 20]
      [] word = <<"2.5">> -> [status |-> "ok", value |-> 25]
      [] word = <<"3.5">> -> [status |-> "ok", value |-> 35]
      [] OTHER -> [status |-> "ValueError", value |-> 0]

\* mutation of is_success: 'Over' succeeds from the threshold on (>= for >)
is_success_from_threshold(row) ==
    LET bt == row.bet_type
        val == row.bet_value
        hg == row.home_goals_fulltime
        ag == row.away_goals_fulltime
    IN  IF hg.nan \/ ag.nan THEN NaN
        ELSE IF bt = <<"Match Winner">>
        THEN IF \/ hg.val > ag.val /\ lower(val) = <<"home">>
                \/ hg.val < ag.val /\ lower(val) = <<"away">>
                \/ hg.val = ag.val /\ lower(val) = <<"draw">>
             THEN Goals(1) ELSE Goals(0)
        ELSE IF bt = <<"Both Teams Score">>
        THEN LET both_score == hg.val > 0 /\ ag.val > 0
             IN  IF \/ both_score /\ lower(val) \in {<<"yes">>, <<"y">>, <<"1">>, <<"true">>}
                    \/ ~both_score /\ lower(val) \in {<<"no">>, <<"n">>, <<"0">>, <<"false">>}
                 THEN Goals(1) ELSE Goals(0)
        ELSE IF bt = <<"Goals Over/Under">>
        THEN LET words == split(val)
             IN  IF Len(words) # 2 \/ float(words[2]).status # "ok" THEN NaN
                 ELSE IF lower(words[1]) = <<"over">>
                 THEN (IF 10 * (hg.val + ag.val) >= float(words[2]).value THEN Goals(1) ELSE Goals(0))
                 ELSE IF lower(words[1]) = <<"under">>
                 THEN (IF 10 * (hg.val + ag.val) < float(words[2]).value THEN Goals(1) ELSE Goals(0))
                 ELSE NaN
        ELSE NaN

\* is_success(row): 1, 0 or np.nan, as the numbers Goals(1), Goals(0), NaN
is_success(row) ==
    LET bt == row.bet_type
        val == row.bet_value
        hg == row.home_goals_fulltime
        ag == row.away_goals_fulltime
    IN  IF hg.nan \/ ag.nan THEN NaN
        ELSE IF bt = <<"Match Winner">>
        THEN IF \/ hg.val > ag.val /\ lower(val) = <<"home">>
                \/ hg.val < ag.val /\ lower(val) = <<"away">>
                \/ hg.val = ag.val /\ lower(val) = <<"draw">>
             THEN Goals(1) ELSE Goals(0)
        ELSE IF bt = <<"Both Teams Score">>
        THEN LET both_score == hg.val > 0 /\ ag.val > 0
             IN  IF \/ both_score /\ lower(val) \in {<<"yes">>, <<"y">>, <<"1">>, <<"true">>}
                    \/ ~both_score /\ lower(val) \in {<<"no">>, <<"n">>, <<"0">>, <<"false">>}
                 THEN Goals(1) ELSE Goals(0)
        ELSE IF bt = <<"Goals Over/Under">>
        THEN LET words == split(val)
             IN  IF Len(words) # 2 \/ float(words[2]).status # "ok" THEN NaN
                 ELSE IF lower(words[1]) = <<"over">>
                 THEN (IF 10 * (hg.val + ag.val) > float(words[2]).value THEN Goals(1) ELSE Goals(0))
                 ELSE IF lower(words[1]) = <<"under">>
                 THEN (IF 10 * (hg.val + ag.val) < float(words[2]).value THEN Goals(1) ELSE Goals(0))
                 ELSE NaN
        ELSE NaN

\* Series.round(2) of num / den (den > 0), in hundredths: the nearest
\* integer to 100 * num / den, the even one of two equally near
round2(num, den) ==
    LET q == (100 * num) \div den
        r == (100 * num) % den
    IN  IF 2 * r > den \/ (2 * r = den /\ q % 2 = 1) THEN q + 1 ELSE q

RequiredCols == {"bet_type", "bet_value", "home_goals_fulltime", "away_goals_fulltime"}

\* compute_bet_success_rates(df): the rows of the summary, success_rate as
\* the fraction [num, den]
compute_bet_success_rates(df) ==
    IF df.rows = <<>> \/ ~(RequiredCols \subseteq df.columns) THEN {}
    ELSE LET kept == {i \in DOMAIN df.rows : is_success(df.rows[i]) # NaN}
             group(t, v) == {i \in kept : df.rows[i].bet_type = t /\ df.rows[i].bet_value = v}
             won(t, v) == {i \in group(t, v) : is_success(df.rows[i]) = Goals(1)}
         IN  {[bet_type |-> df.rows[i].bet_type,
               bet_value |-> df.rows[i].bet_value,
               total_bets |-> Cardinality(group(df.rows[i].bet_type, df.rows[i].bet_value)),
               successes |-> Cardinality(won(df.rows[i].bet_type, df.rows[i].bet_value)),
               success_rate |->
                   [num |-> round2(Cardinality(won(df.rows[i].bet_type, df.rows[i].bet_value)),
                                   Cardinality(group(df.rows[i].bet_type, df.rows[i].bet_value))),
                    den |-> 100]] : i \in kept}

\* the bets of the predictions: those of the tests, and values and bet
\* types that is_success does not know
PredictedBets ==
    {<<<<"Match Winner">>, <<"Home">>>>,
     <<<<"Match Winner">>, <<"Away">>>>,
     <<<<"Match Winner">>, <<"Draw">>>>,
     <<<<"Match Winner">>, <<"1X">>>>,
     <<<<"Both Teams Score">>, <<"Yes">>>>,
     <<<<"Both Teams Score">>, <<"No">>>>,
     <<<<"Goals Over/Under">>, <<"Over", " ", "2.5">>>>,
     <<<<"Goals Over/Under">>, <<"Under", " ", "1.5">>>>,
     <<<<"Goals Over/Under">>, <<"Over", " ", "2">>>>,
     <<<<"Goals Over/Under">>, <<"Over">>>>,
     <<<<"Goals Over/Under">>, <<"Exactly", " ", "2">>>>,
     <<<<"Double Chance">>, <<"Home/Draw">>>>}

\* the full-time scores merged in by enrich_with_results: NaN for a fixture
\* without a result
FullTimeScores ==
    {<<Goals(2), Goals(1)>>, <<Goals(0), Goals(1)>>, <<Goals(1), Goals(1)>>,
     <<Goals(0), Goals(0)>>, <<NoGoals, NoGoals>>}

EnrichedRows ==
    {[bet_type |-> b[1], bet_value |-> b[2],
      home_goals_fulltime |-> s[1], away_goals_fulltime |-> s[2]] :
        b \in PredictedBets, s \in FullTimeScores}

\* the frames handed to compute_bet_success_rates: enriched predictions, an
\* empty frame, and predictions that were not enriched
EnrichedFrames ==
    {[columns |-> RequiredCols, rows |-> rows] :
        rows \in UNION {[1..n -> EnrichedRows] : n \in 0..MaxBets}}
    \cup {[columns |-> {"bet_type", "bet_value"},
           rows |-> <<[bet_type |-> <<"Match Winner">>, bet_value |-> <<"Home">>]>>]}

\* analyzer = PredictionsAnalyzer(), and the frame enriched_df that
\* run_full_analysis has read
InitRates ==
    /\ WorkflowUnused
    /\ AnalyzerUnused
    /\ NothingWritten
    /\ EloUnused
    /\ \E df \in EnrichedFrames :
           last_call = [op |-> "enrich_with_results", arg |-> <<>>,
                        status |-> "ok", value |-> df]

\* analyzer.compute_bet_success_rates(enriched_df)
ComputeBetSuccessRates ==
    /\ last_call.op \in {"enrich_with_results", "compute_bet_success_rates"}
    /\ LET df == IF last_call.op = "enrich_with_results" THEN last_call.value
                 ELSE last_call.arg
       IN  last_call' = [op |-> "compute_bet_success_rates", arg |-> df,
                         status |-> "ok", value |-> compute_bet_success_rates(df)]
    /\ UNCHANGED <<workflow_vars, analyzer_vars, predictions_dir, elo_vars, data_files>>

SpecRates == InitRates /\ [][ComputeBetSuccessRates]_vars

RatesComputed == last_call.op = "compute_bet_success_rates"

\* C22: success_rate is a percentage: for every (bet_type, bet_value) group
\* of the summary, success_rate = 100 * successes / total_bets, with
\* successes <= total_bets.
C22_RateIsPercentage ==
    RatesComputed =>
        \A g \in last_call.value :
            /\ g.successes <= g.total_bets
            /\ g.success_rate.num * g.total_bets = 100 * g.successes * g.success_rate.den


\* the rows of the frame handed over that bet `t` on `v`
RowsOn(t, v) ==
    {i \in DOMAIN last_call.arg.rows :
        last_call.arg.rows[i].bet_type = t /\ last_call.arg.rows[i].bet_value = v}

ScoreKnown(row) == ~row.home_goals_fulltime.nan /\ ~row.away_goals_fulltime.nan

TotalGoals(row) == row.home_goals_fulltime.val + row.away_goals_fulltime.val

\* the bets a final score can settle: a known bet type with a value that
\* can be read
Settled(row) ==
    \/ row.bet_type = <<"Match Winner">>
    \/ row.bet_type = <<"Both Teams Score">>
    \/ row.bet_type = <<"Goals Over/Under">>
           /\ row.bet_value \in {<<"Over", " ", "2.5">>, <<"Under", " ", "1.5">>,
                                 <<"Over", " ", "2">>}

\* the final score realises the bet
Realised(row) ==
    \/ /\ row.bet_type = <<"Match Winner">>
       /\ \/ row.bet_value = <<"Home">>
                /\ row.home_goals_fulltime.val > row.away_goals_fulltime.val
          \/ row.bet_value = <<"Away">>
                /\ row.home_goals_fulltime.val < row.away_goals_fulltime.val
          \/ row.bet_value = <<"Draw">>
                /\ row.home_goals_fulltime.val = row.away_goals_fulltime.val
    \/ /\ row.bet_type = <<"Both Teams Score">>
       /\ \/ row.bet_value = <<"Yes">>
                /\ row.home_goals_fulltime.val > 0 /\ row.away_goals_fulltime.val > 0
          \/ row.bet_value = <<"No">>
                /\ ~(row.home_goals_fulltime.val > 0 /\ row.away_goals_fulltime.val > 0)
    \/ /\ row.bet_type = <<"Goals Over/Under">>
       /\ \/ row.bet_value = <<"Over", " ", "2.5">> /\ 2 * TotalGoals(row) > 5
          \/ row.bet_value = <<"Over", " ", "2">> /\ TotalGoals(row) > 2
          \/ row.bet_value = <<"Under", " ", "1.5">> /\ 2 * TotalGoals(row) < 3

Counted(t, v) ==
    {i \in RowsOn(t, v) :
        ScoreKnown(last_call.arg.rows[i]) /\ Settled(last_call.arg.rows[i])}

C23_WitnessHalf ==
    /\ RatesComputed
    /\ \E g \in last_call.value :
           /\ g.bet_type = <<"Match Winner">>
           /\ g.bet_value = <<"Away">>
           /\ g.total_bets = 2
           /\ g.successes = 1

\* rows with a missing score or an unknown bet type only: an empty summary
C23_WitnessNone ==
    /\ RatesComputed
    /\ last_call.value = {}
    /\ Len(last_call.arg.rows) = 2
    /\ ~ScoreKnown(last_call.arg.rows[1])
    /\ ScoreKnown(last_call.arg.rows[2])
    /\ last_call.arg.rows[2].bet_type = <<"Double Chance">>

---------------------------------------------------------------------------
(* FootballDataUpdater                                                     *)
(* Dates are days relative to self.today. A row of a league file is        *)
(* [fixture_id, date, status, stats, version]: stats tells whether         *)
(* home_shots_on_goal is filled, version is 0 for what the file held and   *)
(* 1 for what this update fetched.                                         *)

WindowDays == 365

\* self.cutoff_date = self.today - timedelta(days=365)
cutoff_date == 0 - WindowDays

\* filter_by_date_range(df)
filter_by_date_range(rows) ==
    SelectSeq(rows, LAMBDA r : r.date >= cutoff_date)

\* df.sort_values('date'), rows of one date in the order they had
RECURSIVE sort_values(_)
sort_values(rows) ==
    IF rows = <<>> THEN <<>>
    ELSE LET i == CHOOSE k \in DOMAIN rows :
                      /\ \A j \in DOMAIN rows : rows[k].date <= rows[j].date
                      /\ \A j \in 1..(k - 1) : rows[j].date > rows[k].date
         IN  <<rows[i]>> \o sort_values(SubSeq(rows, 1, i - 1) \o SubSeq(rows, i + 1, Len(rows)))

\* mutation of drop_duplicates_last: keep='first'
drop_duplicates_first(rows) ==
    LET kept == {i \in DOMAIN rows :
                    \A j \in 1..(i - 1) : rows[j].fixture_id # rows[i].fixture_id}
        F[i \in 0..Len(rows)] ==
            IF i = 0 THEN <<>>
            ELSE IF i \in kept THEN Append(F[i - 1], rows[i]) ELSE F[i - 1]
    IN  F[Len(rows)]

\* df.drop_duplicates(subset=['fixture_id'], keep='last')
drop_duplicates_last(rows) ==
    LET kept == {i \in DOMAIN rows :
                    \A j \in (i + 1)..Len(rows) : rows[j].fixture_id # rows[i].fixture_id}
        F[i \in 0..Len(rows)] ==
            IF i = 0 THEN <<>>
            ELSE IF i \in kept THEN Append(F[i - 1], rows[i]) ELSE F[i - 1]
    IN  F[Len(rows)]

\* save_to_csv(df, league_code): an empty frame is not written
save_to_csv(rows, file) ==
    IF rows = <<>> THEN file ELSE [exists |-> TRUE, rows |-> rows]

\* step 4 of update_league_data: the loop over recent_fixtures, from the
\* pair [existing, new_matches]
RECURSIVE process_recent(_, _, _)
process_recent(recent_fixtures, with_stats, acc) ==
    IF recent_fixtures = <<>> THEN acc
    ELSE LET fixture == Head(recent_fixtures)
             match_data(stats) ==
                 [fixture_id |-> fixture.fixture_id, date |-> fixture.date,
                  status |-> fixture.status, stats |-> stats, version |-> 1]
             stored == SelectSeq(acc.existing,
                                 LAMBDA r : r.fixture_id = fixture.fixture_id)
             next ==
                 IF stored # <<>>
                 THEN IF fixture.status = "FT" /\ ~stored[1].stats
                      THEN [existing |-> SelectSeq(acc.existing,
                                             LAMBDA r : r.fixture_id # fixture.fixture_id),
                            new_matches |-> Append(acc.new_matches,
                                                   match_data(fixture.fixture_id \in with_stats))]
                      ELSE acc
                 ELSE [existing |-> acc.existing,
                       new_matches |-> Append(acc.new_matches,
                                              match_data(fixture.status = "FT"
                                                         /\ fixture.fixture_id \in with_stats))]
         IN  process_recent(Tail(recent_fixtures), with_stats, next)

\* update_league_data(league_code): the league file afterwards and the value
\* returned, from the file before, the API's recent fixtures and the
\* fixtures the API has statistics for
update_league_data(file, recent_fixtures, with_stats) ==
    LET loaded == IF file.exists THEN file.rows ELSE <<>>
        existing_df == IF loaded # <<>> THEN filter_by_date_range(loaded) ELSE loaded
    IN  IF recent_fixtures = <<>>
        THEN [file |-> IF existing_df # <<>> THEN save_to_csv(existing_df, file) ELSE file,
              value |-> FALSE]
        ELSE LET done == process_recent(recent_fixtures, with_stats,
                                        [existing |-> existing_df, new_matches |-> <<>>])
                 combined_df ==
                     IF done.new_matches # <<>>
                     THEN IF done.existing # <<>>
                          THEN drop_duplicates_last(done.existing \o done.new_matches)
                          ELSE done.new_matches
                     ELSE done.existing
             IN  [file |-> save_to_csv(sort_values(filter_by_date_range(combined_df)), file),
                  value |-> TRUE]

\* what a league file may hold of each fixture when an update starts: the
\* file was written up to WindowDays + 35 days ago
StoredMatches ==
    {[fixture_id |-> 1, date |-> cutoff_date - 35, status |-> "FT", stats |-> TRUE, version |-> 0],
     [fixture_id |-> 2, date |-> cutoff_date - 1, status |-> "FT", stats |-> TRUE, version |-> 0],
     [fixture_id |-> 3, date |-> cutoff_date, status |-> "FT", stats |-> TRUE, version |-> 0],
     [fixture_id |-> 4, date |-> 0 - 10, status |-> "FT", stats |-> TRUE, version |-> 0],
     [fixture_id |-> 4, date |-> 0 - 10, status |-> "FT", stats |-> FALSE, version |-> 0],
     [fixture_id |-> 4, date |-> 0 - 10, status |-> "NS", stats |-> FALSE, version |-> 0],
     [fixture_id |-> 5, date |-> 3, status |-> "NS", stats |-> FALSE, version |-> 0]}

\* the league files: none, or one row per fixture in the order of the dates
LeagueFiles ==
    {NoFile} \cup
    {[exists |-> TRUE, rows |-> sort_values(rows)] :
        rows \in {r \in UNION {[1..n -> StoredMatches] : n \in 1..4} :
                     \A i, j \in DOMAIN r : i < j => r[i].fixture_id < r[j].fixture_id}}

\* the fixtures of the API between today - 14 and today + 7
RecentFixtures ==
    {[fixture_id |-> 4, date |-> 0 - 10, status |-> "FT"],
     [fixture_id |-> 5, date |-> 4, status |-> "NS"],
     [fixture_id |-> 6, date |-> 0 - 2, status |-> "FT"]}

\* updater = FootballDataUpdater(key), before update_league_data(league_code):
\* the league file, and what the API will answer
InitUpdater ==
    /\ WorkflowUnused
    /\ AnalyzerUnused
    /\ EloUnused
    /\ predictions_dir = [daily |-> [exists |-> FALSE], historical |-> [exists |-> FALSE]]
    /\ \E file \in LeagueFiles :
           data_files = [matches |-> file, odds |-> NoFile, elo_history |-> NoFile]
    /\ \E recent_fixtures \in UNION {[1..n -> RecentFixtures] : n \in 0..MaxFetched},
          with_stats \in SUBSET {4, 6} :
           last_call = [op |-> "FootballDataUpdater",
                        arg |-> [recent_fixtures |-> recent_fixtures,
                                 with_stats |-> with_stats],
                        status |-> "ok", value |-> <<>>]

\* updater.update_league_data(league_code)
UpdateLeagueData ==
    /\ last_call.op = "FootballDataUpdater"
    /\ LET ret == update_league_data(data_files.matches, last_call.arg.recent_fixtures,
                                     last_call.arg.with_stats)
       IN  /\ data_files' = [data_files EXCEPT !.matches = ret.file]
           /\ last_call' = [op |-> "update_league_data",
                            arg |-> [recent_fixtures |-> last_call.arg.recent_fixtures,
                                     with_stats |-> last_call.arg.with_stats,
                                     file |-> data_files.matches],
                            status |-> "ok", value |-> ret.value]
    /\ UNCHANGED <<workflow_vars, analyzer_vars, predictions_dir, elo_vars>>

SpecUpdater == InitUpdater /\ [][UpdateLeagueData]_vars

LeagueUpdated == last_call.op = "update_league_data"

\* C24: after update_league_data the league file holds no match dated
\* before cutoff_date and at most one row per fixture_id, and the row of a
\* fetched fixture is the one from the newest fetch.
C24_SlidingWindowKept ==
    LeagueUpdated =>
        LET rows == data_files.matches.rows
            fetched == last_call.arg.recent_fixtures
        IN  /\ \A i \in DOMAIN rows : rows[i].date >= cutoff_date
            /\ \A i, j \in DOMAIN rows : rows[i].fixture_id = rows[j].fixture_id => i = j
            /\ \A k \in DOMAIN fetched :
                   (\A m \in (k + 1)..Len(fetched) :
                        fetched[m].fixture_id # fetched[k].fixture_id)
                       => \E i \in DOMAIN rows :
                              /\ rows[i].fixture_id = fetched[k].fixture_id
                              /\ rows[i].version = 1
                              /\ rows[i].date = fetched[k].date
                              /\ rows[i].status = fetched[k].status

---------------------------------------------------------------------------
(* Cells as means over bookmakers                                          *)

\* the sets of records that hold one record of each bookmaker of S
OnePerBookmaker(rows, S) ==
    {R \in SUBSET S :
        /\ Bookmakers(rows, R) = Bookmakers(rows, S)
        /\ \A i, j \in R : rows[i].bookmaker_id = rows[j].bookmaker_id => i = j}

\* C25: every non-null cell of the feature matrix is the arithmetic mean of
\* the odds of its (fixture_id, bet_identifier) group with each bookmaker
\* counting once, over at least MIN_BOOKMAKERS_THRESHOLD distinct
\* bookmakers: a bookmaker with several records in the group does not weigh
\* more than the others.
C25_CellIsMeanOverBookmakers ==
    \A pair \in DOMAIN historical_feature_matrix.cells :
        LET rows == historical_odds_data.rows
            S == {i \in RecordsOf(rows, pair) : HasNumericOdd(rows[i])}
        IN  /\ Cardinality(Bookmakers(rows, S)) >= thresholds.MIN_BOOKMAKERS_THRESHOLD
            /\ \E R \in OnePerBookmaker(rows, S) :
                   IsMeanOf(historical_feature_matrix.cells[pair], rows, R)

---------------------------------------------------------------------------
(* The allow-list of match_analyzer                                        *)

\* C26: match_analyzer.create_feature_matrix applies the KEY_BET_TYPES
\* allow-list of its configuration module: for every non-empty input it does
\* not fail because of the configuration, and the columns of the matrix it
\* returns all come from bet types of the allow-list.
C26_AllowListApplied ==
    (last_call.op = "create_feature_matrix" /\ ~IsEmpty(last_call.arg)) =>
        /\ last_call.status # "AttributeError"
        /\ last_call.status = "ok" =>
               \A column \in last_call.value.columns :
                   \E bet_type \in KeyedConfig.KEY_BET_TYPES :
                       /\ Len(column) > Len(bet_type)
                       /\ SubSeq(column, 1, Len(bet_type) + 1) = bet_type \o <<"_">>

---------------------------------------------------------------------------
(* FootballOddsUpdater                                                     *)
(* A row of an odds file is [fixture_id, bookmaker_id, bet_type_id,        *)
(* bet_value, odd, collected_at]; collected_at counts clock ticks.         *)

KeyOf(r) == <<r.fixture_id, r.bookmaker_id, r.bet_type_id, r.bet_value>>

\* mutation of latest_per_key: ascending order, the oldest row of a key is kept
latest_per_key_ascending(rows) ==
    LET kept == {i \in DOMAIN rows :
                    \A j \in DOMAIN rows :
                        (j # i /\ KeyOf(rows[j]) = KeyOf(rows[i]))
                            => (rows[j].collected_at > rows[i].collected_at
                                    \/ (rows[j].collected_at = rows[i].collected_at /\ j > i))}
        before(i, j) == rows[i].collected_at < rows[j].collected_at
                            \/ (rows[i].collected_at = rows[j].collected_at /\ i < j)
        F[n \in 0..Cardinality(kept)] ==
            IF n = 0 THEN <<>>
            ELSE Append(F[n - 1],
                        rows[CHOOSE i \in kept :
                                 Cardinality({j \in kept : before(j, i)}) = n - 1])
    IN  F[Cardinality(kept)]

\* combined_df.sort_values('collected_at', ascending=False) followed by
\* drop_duplicates(subset=key_cols, keep='first'); rows of one collected_at
\* in the order they had
latest_per_key(rows) ==
    LET kept == {i \in DOMAIN rows :
                    \A j \in DOMAIN rows :
                        (j # i /\ KeyOf(rows[j]) = KeyOf(rows[i]))
                            => (rows[j].collected_at < rows[i].collected_at
                                    \/ (rows[j].collected_at = rows[i].collected_at /\ j > i))}
        before(i, j) == rows[i].collected_at > rows[j].collected_at
                            \/ (rows[i].collected_at = rows[j].collected_at /\ i < j)
        F[n \in 0..Cardinality(kept)] ==
            IF n = 0 THEN <<>>
            ELSE Append(F[n - 1],
                        rows[CHOOSE i \in kept :
                                 Cardinality({j \in kept : before(j, i)}) = n - 1])
    IN  F[Cardinality(kept)]

\* the loop of update_league_odds over fixtures_to_check, from
\* [requested, new_odds_data]: get_fixture_odds answers None for the
\* fixtures of `unanswered` and the records `quotes` for the others, and
\* process_odds_data stamps each record with the clock, which starts at `now`
RECURSIVE collect_odds(_, _, _, _, _, _)
collect_odds(fixtures, processed_fixtures, quotes, unanswered, now, acc) ==
    IF fixtures = <<>> THEN acc
    ELSE LET fixture == Head(fixtures)
             at == now + Len(acc.new_odds_data)
             records ==
                 IF fixture.fixture_id \in unanswered THEN <<>>
                 ELSE [i \in DOMAIN quotes |->
                          [fixture_id |-> fixture.fixture_id,
                           bookmaker_id |-> quotes[i].bookmaker_id,
                           bet_type_id |-> quotes[i].bet_type_id,
                           bet_value |-> quotes[i].bet_value,
                           odd |-> quotes[i].odd,
                           collected_at |-> at + i - 1]]
             next ==
                 IF fixture.status_short # "FT" \/ fixture.fixture_id \notin processed_fixtures
                 THEN [requested |-> Append(acc.requested, fixture.fixture_id),
                       new_odds_data |-> acc.new_odds_data \o records]
                 ELSE acc
         IN  collect_odds(Tail(fixtures), processed_fixtures, quotes, unanswered, now, next)

\* update_league_odds(league_code): the odds file afterwards, the fixtures
\* requested from the API and the records collected
update_league_odds(file, fixtures_to_check, quotes, unanswered, now) ==
    IF fixtures_to_check = <<>>
    THEN [file |-> file, requested |-> <<>>, new_odds_data |-> <<>>]
    ELSE LET existing_odds_df == IF file.exists THEN file.rows ELSE <<>>
             processed_fixtures ==
                 {existing_odds_df[i].fixture_id : i \in DOMAIN existing_odds_df}
             done == collect_odds(fixtures_to_check, processed_fixtures, quotes, unanswered,
                                  now, [requested |-> <<>>, new_odds_data |-> <<>>])
         IN  [file |-> IF done.new_odds_data = <<>> THEN file
                       ELSE [exists |-> TRUE,
                             rows |-> latest_per_key(existing_odds_df \o done.new_odds_data)],
              requested |-> done.requested,
              new_odds_data |-> done.new_odds_data]

\* what earlier updates have stored: fixture 1 quoted by two bookmakers at
\* tick 1, fixture 2 by one at tick 2
StoredOdds ==
    <<[fixture_id |-> 2, bookmaker_id |-> 1, bet_type_id |-> 1, bet_value |-> "Home",
       odd |-> 210, collected_at |-> 2],
      [fixture_id |-> 1, bookmaker_id |-> 1, bet_type_id |-> 1, bet_value |-> "Home",
       odd |-> 150, collected_at |-> 1],
      [fixture_id |-> 1, bookmaker_id |-> 2, bet_type_id |-> 1, bet_value |-> "Home",
       odd |-> 152, collected_at |-> 1]>>

\* the odds files: none, or some of the stored rows, latest first
OddsFiles ==
    {NoFile} \cup
    {[exists |-> TRUE, rows |-> SelectSeq(StoredOdds, LAMBDA r : KeyOf(r) \in keys)] :
        keys \in SUBSET {KeyOf(StoredOdds[i]) : i \in DOMAIN StoredOdds}}

\* the matches of the league within the update window: fixture 1 is over,
\* fixture 2 is over or not, fixture 3 has not started
FixturesToCheck ==
    {SelectSeq(<<[fixture_id |-> 1, status_short |-> "FT"],
                 [fixture_id |-> 2, status_short |-> status],
                 [fixture_id |-> 3, status_short |-> "NS"]>>,
               LAMBDA f : f.fixture_id \in ids) :
        ids \in SUBSET {1, 2, 3}, status \in {"FT", "NS"}}

\* the records the API holds for a fixture; the last repeats the key of the
\* first
OddsQuotes ==
    {[bookmaker_id |-> 1, bet_type_id |-> 1, bet_value |-> "Home", odd |-> 160],
     [bookmaker_id |-> 2, bet_type_id |-> 1, bet_value |-> "Home", odd |-> 170],
     [bookmaker_id |-> 1, bet_type_id |-> 1, bet_value |-> "Home", odd |-> 165]}

\* updater = FootballOddsUpdater(key), before update_league_odds(league_code);
\* the clock is past every stored collected_at
InitOddsUpdater ==
    /\ WorkflowUnused
    /\ AnalyzerUnused
    /\ EloUnused
    /\ predictions_dir = [daily |-> [exists |-> FALSE], historical |-> [exists |-> FALSE]]
    /\ \E file \in OddsFiles :
           data_files = [matches |-> NoFile, odds |-> file, elo_history |-> NoFile]
    /\ \E fixtures \in FixturesToCheck,
          quotes \in UNION {[1..n -> OddsQuotes] : n \in 0..MaxQuotes},
          unanswered \in SUBSET {2, 3} :
           last_call = [op |-> "FootballOddsUpdater",
                        arg |-> [fixtures_to_check |-> fixtures, quotes |-> quotes,
                                 unanswered |-> unanswered, now |-> 3],
                        status |-> "ok", value |-> <<>>]

\* updater.update_league_odds(league_code)
UpdateLeagueOdds ==
    /\ last_call.op = "FootballOddsUpdater"
    /\ LET ret == update_league_odds(data_files.odds, last_call.arg.fixtures_to_check,
                                     last_call.arg.quotes, last_call.arg.unanswered,
                                     last_call.arg.now)
       IN  /\ data_files' = [data_files EXCEPT !.odds = ret.file]
           /\ last_call' = [op |-> "update_league_odds",
                            arg |-> [fixtures_to_check |-> last_call.arg.fixtures_to_check,
                                     file |-> data_files.odds],
                            status |-> "ok",
                            value |-> [requested |-> ret.requested,
                                       new_odds_data |-> ret.new_odds_data]]
    /\ UNCHANGED <<workflow_vars, analyzer_vars, predictions_dir, elo_vars>>

SpecOddsUpdater == InitOddsUpdater /\ [][UpdateLeagueOdds]_vars

OddsUpdated == last_call.op = "update_league_odds"

\* the rows stored before the update followed by the rows it collected
KnownOdds == last_call.arg.file.rows \o last_call.value.new_odds_data

\* C27: after update_league_odds has saved a league file, the file holds
\* exactly one row per key (fixture_id, bookmaker_id, bet_type_id,
\* bet_value), the row with the most recent collected_at among the stored
\* and the fetched rows of the key; a fixture with status 'FT' that already
\* has stored odds is not fetched again.
C27_LatestOddsPerKey ==
    OddsUpdated =>
        /\ last_call.value.new_odds_data # <<>> =>
               LET rows == data_files.odds.rows
               IN  /\ \A i, j \in DOMAIN rows : KeyOf(rows[i]) = KeyOf(rows[j]) => i = j
                   /\ \A k \in DOMAIN KnownOdds :
                          \E i \in DOMAIN rows :
                              /\ KeyOf(rows[i]) = KeyOf(KnownOdds[k])
                              /\ rows[i].collected_at >= KnownOdds[k].collected_at
                   /\ \A i \in DOMAIN rows : \E k \in DOMAIN KnownOdds : rows[i] = KnownOdds[k]
        /\ \A n \in DOMAIN last_call.arg.fixtures_to_check :
               LET fixture == last_call.arg.fixtures_to_check[n]
               IN  (/\ fixture.status_short = "FT"
                    /\ \E k \in DOMAIN last_call.arg.file.rows :
                           last_call.arg.file.rows[k].fixture_id = fixture.fixture_id)
                       => \A m \in DOMAIN last_call.value.requested :
                              last_call.value.requested[m] # fixture.fixture_id

\* fixture 2, not over, is fetched again and its stored row replaced by the
\* later of two fetched rows of its key, while fixture 1, over and stored, is
\* not fetched
C27_Witness ==
    /\ OddsUpdated
    /\ \E k \in DOMAIN last_call.arg.file.rows : last_call.arg.file.rows[k].odd = 210
    /\ \E k \in DOMAIN last_call.arg.file.rows : last_call.arg.file.rows[k].fixture_id = 1
    /\ \E n \in DOMAIN last_call.arg.fixtures_to_check :
           last_call.arg.fixtures_to_check[n].fixture_id = 1
    /\ last_call.value.requested = <<2>>
    /\ Len(last_call.value.new_odds_data) = 2
    /\ \E i \in DOMAIN data_files.odds.rows :
           /\ data_files.odds.rows[i].fixture_id = 2
           /\ data_files.odds.rows[i].odd = 165
           /\ data_files.odds.rows[i].collected_at = 4
    /\ \A i \in DOMAIN data_files.odds.rows :
           data_files.odds.rows[i].fixture_id = 2 => data_files.odds.rows[i].odd = 165

---------------------------------------------------------------------------
(* EloPredictionWorkflow                                                   *)
(* A prediction row is [fixture_id, elo_difference]; the ratings file of   *)
(* a run is one of two editions.                                           *)

\* home_elo - away_elo of a fixture under an edition of data/elo_ratings.csv;
\* the first edition does not rate a team of fixture 3
EloDifference(fixture_id, edition) ==
    IF fixture_id = 3 /\ edition = 1 THEN [rated |-> FALSE, value |-> 0]
    ELSE [rated |-> TRUE, value |-> 100 * edition + fixture_id]

\* EloPredictionWorkflow.run: the predictions of the run and
\* historical_elo_predictions.csv afterwards
run(file, fixtures, edition) ==
    LET rated == SelectSeq(fixtures, LAMBDA f : EloDifference(f, edition).rated)
        predictions_of_run ==
            [i \in DOMAIN rated |->
                [fixture_id |-> rated[i],
                 elo_difference |-> EloDifference(rated[i], edition).value]]
    IN  IF predictions_of_run = <<>> THEN [predictions |-> <<>>, file |-> file]
        ELSE [predictions |-> predictions_of_run,
              file |-> [exists |-> TRUE,
                        rows |-> drop_duplicates_last(
                                     IF file.exists THEN file.rows \o predictions_of_run
                                     ELSE predictions_of_run)]]

\* before the first run: no historical_elo_predictions.csv
InitEloHistory ==
    /\ WorkflowUnused
    /\ AnalyzerUnused
    /\ EloUnused
    /\ NothingWritten
    /\ last_call = [op |-> "EloPredictionWorkflow", arg |-> <<>>, status |-> "ok",
                    value |-> <<>>]

\* EloPredictionWorkflow(key).run() on the fixtures of the day
Run ==
    \E fixtures \in UNION {[1..n -> 1..3] : n \in 0..MaxFixtures}, edition \in {1, 2} :
        LET ret == run(data_files.elo_history, fixtures, edition)
        IN  /\ data_files' = [data_files EXCEPT !.elo_history = ret.file]
            /\ last_call' = [op |-> "run",
                             arg |-> [fixtures |-> fixtures, edition |-> edition,
                                      file |-> data_files.elo_history],
                             status |-> "ok", value |-> ret.predictions]
            /\ UNCHANGED <<workflow_vars, analyzer_vars, predictions_dir, elo_vars>>

SpecEloHistory == InitEloHistory /\ [][Run]_vars

\* a run has produced predictions
Predicted == last_call.op = "run" /\ last_call.value # <<>>

\* C28: after any sequence of runs that each produce predictions,
\* historical_elo_predictions.csv holds at most one row per fixture_id; the
\* row of a fixture predicted by the latest run is the one that run wrote,
\* and the rows of the other fixtures are kept unchanged.
C28_HistoryHoldsLatestPrediction ==
    LET rows == data_files.elo_history.rows
    IN  /\ \A i, j \in DOMAIN rows : rows[i].fixture_id = rows[j].fixture_id => i = j
        /\ Predicted =>
               LET written == last_call.value
                   before == last_call.arg.file.rows
                   latest(f) == written[CHOOSE k \in DOMAIN written :
                                            /\ written[k].fixture_id = f
                                            /\ \A m \in (k + 1)..Len(written) :
                                                   written[m].fixture_id # f]
                   predicted == {written[k].fixture_id : k \in DOMAIN written}
               IN  /\ \A f \in predicted : \E i \in DOMAIN rows : rows[i] = latest(f)
                   /\ \A k \in DOMAIN before :
                          before[k].fixture_id \notin predicted
                              => \E i \in DOMAIN rows : rows[i] = before[k]
                   /\ \A i \in DOMAIN rows :
                          \/ rows[i].fixture_id \in predicted
                          \/ \E k \in DOMAIN before : rows[i] = before[k]

\* a run under the second edition of the ratings predicts fixture 1 again,
\* next to the stored prediction of fixture 2: the row of fixture 1 is
\* replaced, the row of fixture 2 stays
C28_Witness ==
    /\ Predicted
    /\ \E k \in DOMAIN last_call.arg.file.rows :
           last_call.arg.file.rows[k] = [fixture_id |-> 1, elo_difference |-> 101]
    /\ \E k \in DOMAIN last_call.arg.file.rows :
           last_call.arg.file.rows[k].fixture_id = 2
    /\ \A k \in DOMAIN last_call.value : last_call.value[k].fixture_id = 1
    /\ \E i \in DOMAIN data_files.elo_history.rows :
           data_files.elo_history.rows[i] = [fixture_id |-> 1, elo_difference |-> 201]
    /\ \E i \in DOMAIN data_files.elo_history.rows :
           data_files.elo_history.rows[i].fixture_id = 2
    /\ Len(data_files.elo_history.rows) = 2

---------------------------------------------------------------------------
(* The two files of the daily predictions over several runs               *)

\* C29: every run of create_daily_predictions_csv that has collected at least
\* one row leaves historical_predictions.csv holding the rows it held before,
\* unchanged and in place, followed by the rows of the run, and leaves the
\* daily file holding the rows of the run only; a run that has collected no
\* row leaves both files as they were. The historical file is therefore the
\* concatenation, in run order, of the rows of the runs.
C29_HistoryIsConcatenationOfRuns ==
    [][last_call'.op = "create_daily_predictions_csv" =>
           LET rows == last_call'.value
               earlier == IF predictions_dir.historical.exists
                          THEN predictions_dir.historical.rows
                          ELSE <<>>
           IN  IF rows = <<>>
               THEN predictions_dir' = predictions_dir
               ELSE /\ predictions_dir'.daily = [exists |-> TRUE, rows |-> rows]
                    /\ predictions_dir'.historical
                           = [exists |-> TRUE, rows |-> earlier \o rows]]_vars

\* a run has been repeated on the same fixtures: the historical file holds
\* the rows of the run twice, the daily file once
C29_Witness ==
    /\ DailyReturned
    /\ last_call.value # <<>>
    /\ predictions_dir.daily.rows = last_call.value
    /\ predictions_dir.historical.rows = last_call.value \o last_call.value

\* a run that collected no row has followed a run that wrote both files
C29_WitnessEmptyRun ==
    /\ last_call.op = "create_daily_predictions_csv"
    /\ last_call.value = <<>>
    /\ predictions_dir.daily.exists
    /\ predictions_dir.historical.rows # <<>>

---------------------------------------------------------------------------
(* The report of an analysis                                               *)

\* the text of the exception that ends the try block of analyze_fixture on
\* this fixture, as a set: empty when the block runs to its end
Raised(fixture_id, env, file, config) ==
    IF ~file.exists THEN {str("FileNotFoundError")}
    ELSE LET fetched == get_api_odds_for_fixture(fixture_id, env, config)
         IN  IF fetched.status # "ok" THEN {str(fetched.status)}
             ELSE IF IsEmptyMatrix(fetched.value)
             THEN {"Could not retrieve or process odds for fixture"}
             ELSE {}

ReportFollows(report, raised) ==
    /\ report.status \in {"success", "failed"}
    /\ report.status = "success" <=> raised = {}
    /\ report.status = "failed" =>
           /\ report.error_message \in raised
           /\ report.similar_matches_count = 0
           /\ report.probabilities = <<>>

\* C30: every invocation of analyze_fixture leaves the report of its fixture,
\* one per fixture file, whatever has failed (processed file missing, API key
\* missing, HTTP error, no odds, an exception while the odds are pivoted): its
\* status is 'success' iff no exception ended the analysis, and a 'failed'
\* report carries the text of the exception, similar_matches_count 0 and no
\* probabilities.
C30_OneReportPerAnalysis ==
    /\ DOMAIN predictions \subseteq AnalysedFixtures
    /\ last_call.op = "analyze_fixture" =>
           /\ last_call.arg \in DOMAIN predictions
           /\ ReportFollows(predictions[last_call.arg],
                            Raised(last_call.arg, analyzer_env, processed_data,
                                   analysis_config))

\* the processed file was loaded and the API has answered with odds, and the
\* analysis has failed on them: the report carries the exception's text
C30_Witness ==
    /\ last_call.op = "analyze_fixture"
    /\ processed_data.exists
    /\ analyzer_env.RAPIDAPI_KEY
    /\ processed_odds(last_call.arg, ApiAnswer(last_call.arg).response) # <<>>
    /\ predictions[last_call.arg]
           = Report("failed", str("AttributeError"), 0, <<>>)

\* the processed file is missing: the report carries the text of the
\* FileNotFoundError
C30_WitnessNoFile ==
    /\ last_call.op = "analyze_fixture"
    /\ ~processed_data.exists
    /\ predictions[last_call.arg].status = "failed"
    /\ predictions[last_call.arg].error_message = str("FileNotFoundError")

====
